---- MODULE Spec2Model ----
(***************************************************************************)
(* Model of the flowkit helpers (src/src/gutils, src/src/atlassian).       *)
(*                                                                         *)
(*  - Spec:        the OAuth credential step shared by                     *)
(*                 GoogleSheets.authenticate, create_spreadsheet,          *)
(*                 find_spreadsheet_by_name, delete_spreadsheet and        *)
(*                 Drive.find_by_name, run by two processes on one token   *)
(*                 file, followed by each operation's vendor requests.     *)
(*                 Saving the token is two steps, open (which empties the  *)
(*                 file) and write, so the processes interleave there.     *)
(*  - SpecExtract: Drive.extract_id applied to reference strings built     *)
(*                 from URL fragments.                                     *)
(*  - SpecFacade:  one caller using the Jira, Confluence and GoogleSheets  *)
(*                 facades and Drive.find_by_name, one call at a time:     *)
(*                 the requests each call issues, what it leaves in the    *)
(*                 token file (the caller is process 1 of Spec) and what   *)
(*                 it returns.                                             *)
(*  - SpecCsv:     utils.file_utils.save_to_csv applied to value grids.    *)
(*  - SpecExcerpt: Confluence._extract_excerpt applied to HTML bodies.      *)
(*  - SpecRoles:   Jira.get_users_with_roles without a project_key: the    *)
(*                 user search, its fallback through the groups and the    *)
(*                 list returned.                                          *)
(***************************************************************************)
EXTENDS Integers, Sequences, FiniteSets, TLC

VARIABLES tokenFile,   \* content of the file at token_file
          secretFile,  \* TRUE iff the client-secret file (credentials_file) exists
          lastWriter,  \* process whose write of the token file succeeded last (0: none)
          calls,       \* number of operations started so far
          proc,        \* per process: the running operation and its local variables
          ref,         \* extract_id: the argument url_or_id (sequence of characters)
          out,         \* extract_id: the outcome of the call
          fac,         \* facades: the objects constructed so far and the call in progress
          csv,         \* save_to_csv: the grid, the file written and the value returned
          ur,          \* get_users_with_roles without a project: vendor data and the list built
          exc          \* _extract_excerpt: the arguments and the text returned

credVars == <<tokenFile, secretFile, lastWriter, calls, proc>>
extractVars == <<ref, out>>
facVars == <<fac>>
helperVars == <<csv, ur, exc>>
vars == <<tokenFile, secretFile, lastWriter, calls, proc, ref, out, fac, csv, ur, exc>>

(***************************************************************************)
(* Bounds                                                                  *)
(***************************************************************************)
MaxCalls == 2
MaxSegs == 2
MaxFacCalls == 3
MaxItems == 2
MaxFiles == 2
MaxRows == 2
MaxHtml == 5

\* The largest page size Confluence is asked for.
ConfluenceMaxLimit == 200

\* The values of max_length that _extract_excerpt is given.
MaxLengths == {2, 3}

\* The two processes that share the token file.
Procs == {1, 2}

(***************************************************************************)
(* Credentials and the token file                                          *)
(***************************************************************************)
\* A google.oauth2 Credentials object as the code reads it: its truthiness
\* (kind), .valid, .expired and .refresh_token; id names the access token.
None == [kind |-> "none", id |-> 0, valid |-> FALSE, expired |-> FALSE,
         refresh_token |-> FALSE]

Cred(i, v, e, r) == [kind |-> "cred", id |-> i, valid |-> v, expired |-> e,
                     refresh_token |-> r]

\* A token file that does not exist, one that cannot be parsed, and one that
\* open(token_file, 'w') has just truncated: it exists and has no content.
Missing == [kind |-> "missing", id |-> 0, valid |-> FALSE, expired |-> FALSE,
            refresh_token |-> FALSE]
Unreadable == [kind |-> "unreadable", id |-> 0, valid |-> FALSE, expired |-> FALSE,
               refresh_token |-> FALSE]

Empty == [kind |-> "empty", id |-> 0, valid |-> FALSE, expired |-> FALSE,
          refresh_token |-> FALSE]

\* Credentials a token file can hold: a valid one is not expired
\* (Credentials.valid is `token is not None and not expired`). The files a
\* run starts from: none, an empty one, an unparsable one, and every
\* credential: valid, expired, or neither (no access token), each with and
\* without refresh token.
StoredCreds == {Cred(0, v, e, r) : v \in BOOLEAN, e \in BOOLEAN, r \in BOOLEAN}
InitialFiles == {Missing, Empty, Unreadable}
                   \cup {c \in StoredCreds : ~(c.valid /\ c.expired)}

\* os.path.exists + Credentials.from_authorized_user_file inside try/except.
LoadCreds(file) == IF file.kind = "cred" THEN file ELSE None

\* Variant: the login block is entered whatever the credential.
NeedsLoginAlways(c) == TRUE

\* `not creds or not creds.valid`
NeedsLogin(c) == c.kind = "none" \/ ~c.valid

\* `creds and creds.expired and creds.refresh_token`
CanRefresh(c) == c.kind = "cred" /\ c.expired /\ c.refresh_token

\* Variant: the consent flow is entered whatever the refresh gave.
NeedsConsentAlways(c) == TRUE

\* `not creds` after the refresh attempt
NeedsConsent(c) == c.kind = "none"

\* The program counter that follows loading the token.
AfterLoad(c) ==
    IF ~NeedsLogin(c) THEN "api"
    ELSE IF CanRefresh(c) THEN "refresh"
    ELSE IF NeedsConsent(c) THEN "consent"
    ELSE "save"

\* creds.refresh(Request()) succeeded: a new unexpired access token.
Refreshed(c, i) == Cred(i, TRUE, FALSE, c.refresh_token)

\* Variant: the stale credential is kept when the refresh raises.
RefreshFailureKeeps(c) == c

\* creds.refresh(Request()) raised: `creds = None`.
RefreshFailure(c) == None

\* flow.run_local_server(port=0) succeeded: a new credential (offline access).
Consented(i) == Cred(i, TRUE, FALSE, TRUE)

\* The identity of the access token the vendor hands out to process p in the
\* credential step it is running: fresh for every step of every call.
FreshId(p, q) == 100 * p + 10 * q.ncall + (IF q.frame = "nested" THEN 1 ELSE 2)

\* Variant: the file gets the access token that was loaded, not the new one.
PersistedStale(c) == [c EXCEPT !.id = 0]

\* What token.write(creds.to_json()) puts into the file.
Persisted(c) == c

(***************************************************************************)
(* Operations                                                              *)
(***************************************************************************)
OpNames == {"authenticate", "create_spreadsheet", "find_spreadsheet_by_name",
            "delete_spreadsheet", "find_by_name"}

\* The value an operation returns when it cannot go on.
Sentinel(name) ==
    IF name \in {"authenticate", "delete_spreadsheet"} THEN "False" ELSE "None"

\* The function whose credential step a process is executing.
CurFn(q) == IF q.frame = "nested" THEN "find_spreadsheet_by_name" ELSE q.op

StepReset == [loaded |-> None, creds |-> None, used |-> None, nRefresh |-> 0, nConsent |-> 0,
              nSave |-> 0, refreshRes |-> "none", consentRes |-> "none",
              saveRes |-> "none", wroteOver |-> FALSE]

IdleProc == [ncall |-> 0, op |-> "none", hasId |-> FALSE, hasName |-> FALSE, pc |-> "idle",
             frame |-> "outer", loaded |-> None, creds |-> None, used |-> None,
             nRefresh |-> 0, nConsent |-> 0, nSave |-> 0,
             refreshRes |-> "none", consentRes |-> "none", saveRes |-> "none",
             wroteOver |-> FALSE, opApi |-> 0, opWrites |-> 0, service |-> None, result |-> "pending"]

\* q with the fields of r overwritten (r names fields of q only).
With(q, r) == r @@ q

\* The operation returns v.
Return(q, v) == With(q, [pc |-> "done", result |-> v])

\* Variant: the failure is printed and the function goes on to its requests.
FailContinues(q) == With(q, [pc |-> "api"])

\* The current function returns its sentinel; a failed nested lookup makes
\* delete_spreadsheet return False at once.
Fail(q) == Return(q, IF q.frame = "nested" THEN "False" ELSE Sentinel(q.op))

ExtractIdle == ref = <<>> /\ out = [called |-> FALSE, ok |-> FALSE, id |-> <<>>]

\* The local variables of a facade call: its inputs (lead, hasId, hasName,
\* project, include_groups, limit, start, url), its position, the remote
\* requests it has issued (reqs; writes are the state-changing ones), the
\* errors it has caught, what the vendor answered, what it printed and
\* what it returned.
\* No dictionary has been returned by Confluence.search_content.
NoSearchResult == [results |-> <<>>, total_results |-> 0, query |-> <<>>]

NoCall == [op |-> "none", pc |-> "idle", lead |-> FALSE, hasId |-> FALSE, hasName |-> FALSE,
           project |-> FALSE, include_groups |-> FALSE, row_number |-> FALSE,
           limit |-> 0, start |-> 0,
           url |-> <<>>, step |-> 0, todo |-> 0, bad |-> 0, reqs |-> 0, writes |-> 0, errors |-> 0,
           nested |-> FALSE, listed |-> FALSE, files |-> <<>>, id |-> 0, message |-> "", printed |-> <<>>, prompted |-> FALSE, answer |-> <<>>,
           sent |-> FALSE, sentLimit |-> 0, sentStart |-> 0,
           nCred |-> 0, creds |-> None, connects |-> 0, created |-> FALSE, newId |-> <<>>, info |-> "none",
           leadLookup |-> "none", sentLead |-> FALSE,
           k |-> 0, n |-> 0, sentCall |-> "none", sentRange |-> <<>>,
           query |-> "", space_key |-> "None", content_type |-> "None",
           use_default_space |-> TRUE, sentCql |-> <<>>, returned |-> NoSearchResult,
           result |-> "pending"]

\* No facade object has been constructed: jira is self.jira of the Jira
\* object, service is self.service of the GoogleSheets object; ncall counts
\* the caller's calls of the operations of Spec (OpNames), ncalls all calls.
NoObjects == [jira |-> "absent", confluence |-> "absent", default_space |-> "None",
              service |-> "absent", spreadsheet_id |-> <<>>, ncall |-> 0, ncalls |-> 0]

FacIdle == fac = NoObjects @@ NoCall

\* No call of save_to_csv, of get_users_with_roles' global path or of
\* _extract_excerpt is in progress.
CsvIdle == csv = [pc |-> "idle", data |-> <<>>, file |-> <<>>, written |-> FALSE,
                  result |-> "pending"]
RolesIdle == ur = [pc |-> "idle", include_groups |-> FALSE, users |-> <<>>, i |-> 0,
                   users_with_roles |-> <<>>, fallback |-> FALSE, users_seen |-> {},
                   groups |-> <<>>, g |-> 0, fetched |-> <<>>, result |-> "pending"]
ExcerptIdle == exc = [pc |-> "idle", html_content |-> <<>>, max_length |-> 0, text |-> <<>>]
HelpersIdle == CsvIdle /\ RolesIdle /\ ExcerptIdle

CredInit ==
    /\ tokenFile \in InitialFiles
    /\ secretFile \in BOOLEAN
    /\ lastWriter = 0
    /\ calls = 0
    /\ proc = [p \in Procs |-> IdleProc]

Init == CredInit /\ ExtractIdle /\ FacIdle /\ HelpersIdle

\* A caller invokes one of the operations; delete_spreadsheet is given an ID
\* (i), a name (n), both or neither.
Call(p) ==
    /\ proc[p].pc \in {"idle", "done"}
    /\ calls < MaxCalls
    /\ \E o \in OpNames, i \in BOOLEAN, n \in BOOLEAN :
         /\ (o # "delete_spreadsheet") => (~i /\ ~n)
         /\ proc' = [proc EXCEPT ![p] =
               With(With(@, StepReset),
                    [ncall |-> @.ncall + 1, op |-> o, hasId |-> i, hasName |-> n, frame |-> "outer",
                     pc |-> IF o = "delete_spreadsheet" THEN "resolve" ELSE "load",
                     opApi |-> 0, opWrites |-> 0,
                     result |-> "pending"])]
    /\ calls' = calls + 1
    /\ UNCHANGED <<tokenFile, secretFile, lastWriter, extractVars, facVars, helperVars>>

\* delete_spreadsheet: choice of the target.
DeleteResolve(p) ==
    /\ proc[p].pc = "resolve"
    /\ proc' = [proc EXCEPT ![p] =
          IF ~@.hasId /\ ~@.hasName THEN Return(@, "False")
          ELSE IF ~@.hasId /\ @.hasName THEN With(@, [frame |-> "nested", pc |-> "load"])
          ELSE With(@, [frame |-> "outer", pc |-> "load"])]
    /\ UNCHANGED <<tokenFile, secretFile, lastWriter, calls, extractVars, facVars, helperVars>>

\* Load the existing token and decide what the credential needs.
LoadToken(p) ==
    /\ proc[p].pc = "load"
    /\ LET c == LoadCreds(tokenFile) IN
         proc' = [proc EXCEPT ![p] =
                    With(@, [loaded |-> c, creds |-> c, pc |-> AfterLoad(c)])]
    /\ UNCHANGED <<tokenFile, secretFile, lastWriter, calls, extractVars, facVars, helperVars>>

\* Variant: a failed refresh is tried again.
RefreshRetry(p) ==
    /\ proc[p].pc = "refresh"
    /\ \E ok \in BOOLEAN :
         proc' = [proc EXCEPT ![p] =
            IF ok
            THEN With(@, [creds |-> Refreshed(@.creds, FreshId(p, @)),
                          nRefresh |-> @.nRefresh + 1, refreshRes |-> "ok",
                          pc |-> "save"])
            ELSE With(@, [nRefresh |-> @.nRefresh + 1, refreshRes |-> "failed",
                          pc |-> "refresh"])]
    /\ UNCHANGED <<tokenFile, secretFile, lastWriter, calls, extractVars, facVars, helperVars>>

\* creds.refresh(Request()) in its try/except.
Refresh(p) ==
    /\ proc[p].pc = "refresh"
    /\ \E ok \in BOOLEAN :
         proc' = [proc EXCEPT ![p] =
            IF ok
            THEN With(@, [creds |-> Refreshed(@.creds, FreshId(p, @)),
                          nRefresh |-> @.nRefresh + 1, refreshRes |-> "ok",
                          pc |-> IF NeedsConsent(Refreshed(@.creds, FreshId(p, @)))
                                 THEN "consent" ELSE "save"])
            ELSE With(@, [creds |-> RefreshFailure(@.creds),
                          nRefresh |-> @.nRefresh + 1, refreshRes |-> "failed",
                          pc |-> IF NeedsConsent(RefreshFailure(@.creds))
                                 THEN "consent" ELSE "save"])]
    /\ UNCHANGED <<tokenFile, secretFile, lastWriter, calls, extractVars, facVars, helperVars>>

\* InstalledAppFlow.from_client_secrets_file + run_local_server: a missing
\* client-secret file and a failed or denied consent both return the sentinel.
Consent(p) ==
    /\ proc[p].pc = "consent"
    /\ \E ok \in BOOLEAN :
         proc' = [proc EXCEPT ![p] =
            IF ~secretFile
            THEN Fail(With(@, [nConsent |-> @.nConsent + 1, consentRes |-> "nosecret"]))
            ELSE IF ok
            THEN With(@, [creds |-> Consented(FreshId(p, @)),
                          nConsent |-> @.nConsent + 1, consentRes |-> "ok",
                          pc |-> "save"])
            ELSE Fail(With(@, [nConsent |-> @.nConsent + 1, consentRes |-> "failed"]))]
    /\ UNCHANGED <<tokenFile, secretFile, lastWriter, calls, extractVars, facVars, helperVars>>

\* Save the credentials for the next run, first half:
\* `with open(token_file, 'w') as token` truncates the file (and creates it
\* when it is missing); an open that raises leaves the file as it was and is
\* only warned about.
OpenToken(p) ==
    /\ proc[p].pc = "save"
    /\ \E ok \in BOOLEAN :
         IF ok
         THEN /\ tokenFile' = Empty
              /\ proc' = [proc EXCEPT ![p] = With(@, [nSave |-> @.nSave + 1, pc |-> "write"])]
         ELSE /\ UNCHANGED tokenFile
              /\ proc' = [proc EXCEPT ![p] =
                    With(@, [nSave |-> @.nSave + 1, saveRes |-> "failed", pc |-> "api"])]
    /\ UNCHANGED <<secretFile, lastWriter, calls, extractVars, facVars, helperVars>>

\* What the file can hold after token.write(creds.to_json()) has written the
\* text of c, or a beginning of it, at offset 0 of a file that holds `file`.
\* A write that succeeds (ok) leaves the text of c: on an empty file it is the
\* whole content; on bytes another process has written since this one opened
\* the file it replaces them when it is at least as long and leaves their
\* tail behind, which cannot be parsed, when it is shorter. A write that
\* raises leaves the file as it is when no byte was written, the whole text
\* when it is the close that raises after the last byte, and else the
\* beginning of the text: alone it cannot be parsed; on the text of a
\* credential another process has written it can also give a text that
\* parses. The text begins with the access token. A beginning that ends
\* inside the token leaves a token that starts as that of c and ends as the
\* one underneath (spliced: the first k decimal digits of c.id, then the
\* digits of file.id from the k-th on), with every later field as it was;
\* a beginning that holds the whole token leaves the token of c and every
\* later field from c or from the text underneath (as no credential is both
\* valid and expired, a text that says so is none).
WrittenOver(file, c, ok) ==
    LET pow[k \in Nat] == IF k = 0 THEN 1 ELSE 10 * pow[k - 1]
        len[n \in Nat] == IF n < 10 THEN 1 ELSE 1 + len[n \div 10]
        lc == len[c.id]
        lf == len[file.id]
        spliced == {(c.id \div pow[lc - k]) * pow[lf - k] + (file.id % pow[lf - k]) :
                       k \in 0..(IF lc < lf THEN lc ELSE lf)}
    IN IF ok
       THEN IF file = Empty THEN {Persisted(c)} ELSE {Persisted(c), Unreadable}
       ELSE {file, Unreadable, Persisted(c)}
               \cup (IF file.kind # "cred" THEN {}
                     ELSE {Cred(h, file.valid, file.expired, file.refresh_token) :
                              h \in spliced}
                            \cup {m \in {Cred(c.id, v, e, r) :
                                            v \in {c.valid, file.valid},
                                            e \in {c.expired, file.expired},
                                            r \in {c.refresh_token, file.refresh_token}} :
                                     ~(m.valid /\ m.expired)})

\* Save the credentials for the next run, second half:
\* token.write(creds.to_json()) and the close that ends the with block. A
\* write that raises is only warned about, whatever it has left in the file:
\* nothing (to_json raised, or no byte was written), in which case the file
\* is empty unless another process has written it in the meantime, the
\* beginning of the text, alone or over what another process has written, or
\* the whole text (WrittenOver).
SaveToken(p) ==
    /\ proc[p].pc = "write"
    /\ \E ok \in BOOLEAN :
         \E left \in WrittenOver(tokenFile, proc[p].creds, ok) :
            /\ tokenFile' = left
            /\ IF ok
               THEN /\ lastWriter' = p
                    /\ proc' = [proc EXCEPT ![p] =
                          With(@, [saveRes |-> "ok", wroteOver |-> tokenFile # Empty,
                                   opWrites |-> @.opWrites + 1, pc |-> "api"])]
               ELSE /\ UNCHANGED lastWriter
                    /\ proc' = [proc EXCEPT ![p] =
                          With(@, [saveRes |-> "failed", pc |-> "api"])]
    /\ UNCHANGED <<secretFile, calls, extractVars, facVars, helperVars>>

\* authenticate: self.service = build('sheets', 'v4', credentials=creds).
BuildService(p) ==
    /\ proc[p].pc = "api"
    /\ CurFn(proc[p]) = "authenticate"
    /\ \E ok \in BOOLEAN :
         proc' = [proc EXCEPT ![p] =
            IF ok THEN Return(With(@, [service |-> @.creds, used |-> @.creds]), "True")
            ELSE Return(@, "False")]
    /\ UNCHANGED <<tokenFile, secretFile, lastWriter, calls, extractVars, facVars, helperVars>>

\* create_spreadsheet: service = build('sheets', 'v4', credentials=creds) and
\* service.spreadsheets().create(body).execute() in one try block: a build
\* that raises returns None and no request has been sent.
CreateRequest(p) ==
    /\ proc[p].pc = "api"
    /\ CurFn(proc[p]) = "create_spreadsheet"
    /\ \E built \in BOOLEAN, ok \in BOOLEAN :
         /\ ~built => ~ok
         /\ proc' = [proc EXCEPT ![p] =
               IF ~built THEN Return(@, "None")
               ELSE Return(With(@, [used |-> @.creds, opApi |-> @.opApi + 1]),
                           IF ok THEN "ID" ELSE "None")]
    /\ UNCHANGED <<tokenFile, secretFile, lastWriter, calls, extractVars, facVars, helperVars>>

\* find_spreadsheet_by_name / Drive.find_by_name: build('drive', 'v3', ...),
\* drive_service.files().list(q).execute() and the classification of the
\* answer, in one try block; n = 3 stands for a transport error. A build that
\* raises returns None and no request has been sent.
ListFiles(p) ==
    /\ proc[p].pc = "api"
    /\ CurFn(proc[p]) \in {"find_spreadsheet_by_name", "find_by_name"}
    /\ \E built \in BOOLEAN, n \in 0..3 :
         /\ ~built => n = 3
         /\ proc' = [proc EXCEPT ![p] =
               LET q == IF built THEN With(@, [used |-> @.creds, opApi |-> @.opApi + 1])
                        ELSE @ IN
               IF q.frame = "nested"
               THEN IF n = 1 THEN With(With(q, StepReset), [frame |-> "outer", pc |-> "load"])
                    ELSE Return(q, "False")
               ELSE Return(q, IF n = 1 THEN "ID" ELSE "None")]
    /\ UNCHANGED <<tokenFile, secretFile, lastWriter, calls, extractVars, facVars, helperVars>>

\* delete_spreadsheet: build('drive', 'v3', credentials=creds) and
\* drive_service.files().get(fileId, fields="name").execute() in one try
\* block: a build that raises returns False and no request has been sent.
DeleteGetInfo(p) ==
    /\ proc[p].pc = "api"
    /\ CurFn(proc[p]) = "delete_spreadsheet"
    /\ \E answer \in {"nobuild", "ok", "404", "error"} :
         proc' = [proc EXCEPT ![p] =
            LET q == With(@, [used |-> @.creds, opApi |-> @.opApi + 1]) IN
            IF answer = "nobuild" THEN Return(@, "False")
            ELSE IF answer = "ok" THEN With(q, [pc |-> "confirm"])
            ELSE Return(q, "False")]
    /\ UNCHANGED <<tokenFile, secretFile, lastWriter, calls, extractVars, facVars, helperVars>>

\* delete_spreadsheet: the interactive confirmation.
DeleteConfirm(p) ==
    /\ proc[p].pc = "confirm"
    /\ \E yes \in BOOLEAN :
         proc' = [proc EXCEPT ![p] =
            IF yes THEN With(@, [pc |-> "delete"]) ELSE Return(@, "False")]
    /\ UNCHANGED <<tokenFile, secretFile, lastWriter, calls, extractVars, facVars, helperVars>>

\* delete_spreadsheet: drive_service.files().delete(fileId).execute().
DeleteRequest(p) ==
    /\ proc[p].pc = "delete"
    /\ \E ok \in BOOLEAN :
         proc' = [proc EXCEPT ![p] =
            Return(With(@, [opApi |-> @.opApi + 1]), IF ok THEN "True" ELSE "False")]
    /\ UNCHANGED <<tokenFile, secretFile, lastWriter, calls, extractVars, facVars, helperVars>>

Next ==
    \E p \in Procs :
        \/ Call(p)
        \/ DeleteResolve(p)
        \/ LoadToken(p)
        \/ Refresh(p)
        \/ Consent(p)
        \/ OpenToken(p)
        \/ SaveToken(p)
        \/ BuildService(p)
        \/ CreateRequest(p)
        \/ ListFiles(p)
        \/ DeleteGetInfo(p)
        \/ DeleteConfirm(p)
        \/ DeleteRequest(p)

Spec == Init /\ [][Next]_vars

(***************************************************************************)
(* Properties of the credential step                                       *)
(***************************************************************************)
\* The credential step of q has been left with a credential in hand.
PastStep(q) == q.pc \in {"api", "confirm", "delete", "done"}

\* No usable credential: nothing loaded, or a loaded credential that is not
\* valid and has no refresh token.
NoUsableCredential(c) == c.kind = "none" \/ (~c.valid /\ ~c.refresh_token)

\* The credential step of q is saving: it is about to open the token file, or
\* has opened it and not yet written.
Saving(q) == q.pc \in {"save", "write"}

\* What a write of process p that succeeded leaves in the file: the
\* credential written, or bytes that cannot be parsed, a mix, when the bytes
\* of p landed on those another process had written since p opened the file.
SavedBy(p) == {proc[p].creds, Unreadable}

\* The step in which process p writes the token file it has opened: the
\* credential in hand is kept whether the write succeeds or raises, and a
\* write that succeeds leaves that credential in the file when the file was
\* still empty, as the open of p left it, and else that credential or bytes
\* that cannot be parsed.
WriteStep(p) ==
    (proc[p].pc = "write" /\ proc'[p].pc # "write")
        => /\ proc'[p].creds = proc[p].creds
           /\ proc'[p].saveRes \in {"ok", "failed"}
           /\ (proc'[p].saveRes = "ok")
                 => /\ tokenFile' \in {proc[p].creds, Unreadable}
                    /\ (tokenFile = Empty => tokenFile' = proc[p].creds)

\* C1 (as claimed): whenever the credential step finds no usable credential (no
\* token file, an unreadable one, or a loaded credential that is not valid and
\* has no refresh token), it runs the consent flow and persists the consent
\* result to the token file before any vendor API call is made.
C1_ConsentWhenNoUsableCredential ==
    \A p \in Procs : LET q == proc[p] IN
        (NoUsableCredential(q.loaded) /\ q.pc \in {"save", "write", "api", "confirm", "delete"})
            => /\ q.nConsent = 1
               /\ q.consentRes = "ok"
               /\ (~Saving(q) => q.saveRes = "ok")

\* C2 (as claimed): when the loaded credential is expired with a refresh token
\* and the refresh succeeds, the step uses the refreshed credential, overwrites
\* the token file with it, and does not run the consent flow.
C2_RefreshOverwritesTokenFile ==
    \A p \in Procs : LET q == proc[p] IN
        (q.refreshRes = "ok" /\ PastStep(q))
            => /\ q.nConsent = 0
               /\ q.creds = Refreshed(q.loaded, FreshId(p, q))
               /\ q.saveRes = "ok"

\* C2 (amended): after a successful refresh the step runs no consent flow, keeps
\* the refreshed credential for the requests that follow, and makes exactly one
\* attempt to overwrite the token file with it (the file is opened, which
\* empties it, and then written). A write that succeeds leaves the refreshed
\* credential in the file when the file was still as this step's open left
\* it, and the credential or bytes that cannot be parsed when another process
\* wrote the file in between; when the open or the write fails the step goes
\* on with the refreshed credential all the same. What the file holds later is
\* up to the processes that write it afterwards.
C2_RefreshSavedOrWarned ==
    /\ [](\A p \in Procs : LET q == proc[p] IN
            (q.refreshRes = "ok" /\ PastStep(q))
                => /\ q.nRefresh = 1
                   /\ q.nConsent = 0
                   /\ q.consentRes = "none"
                   /\ q.creds = Refreshed(q.loaded, FreshId(p, q))
                   /\ q.creds.valid
                   /\ q.creds # q.loaded
                   /\ q.nSave = 1
                   /\ q.saveRes \in {"ok", "failed"}
                   /\ (q.used.kind = "cred" => q.used = q.creds)
                   /\ (q.result \in {"True", "ID"} => q.used = q.creds))
    /\ [][\A p \in Procs : proc[p].refreshRes = "ok" => WriteStep(p)]_vars

C2_Witness ==
    \E p \in Procs : LET q == proc[p] IN
        /\ q.refreshRes = "ok" /\ q.pc = "done" /\ q.result = "True"
        /\ q.saveRes = "ok" /\ tokenFile = q.creds /\ q.used = q.creds
        /\ CanRefresh(q.loaded)

\* C3 (as claimed): when the refresh of an expired credential fails, the step
\* does not raise: it discards the credential, runs the consent flow, and on
\* consent success persists and uses the new credential.
C3_FailedRefreshConsentPersisted ==
    \A p \in Procs : LET q == proc[p] IN
        (q.refreshRes = "failed" /\ q.pc # "consent")
            => /\ q.nConsent = 1
               /\ (q.consentRes = "ok" /\ ~Saving(q)) => q.saveRes = "ok"

\* C3 (amended): when the refresh fails the credential is discarded and the
\* consent flow runs once; a failed consent returns the sentinel, a successful
\* one yields a new credential that the step uses and tries once to write to
\* the token file: a write that succeeds leaves the new credential in the
\* file when the file was still as this step's open left it, and the
\* credential or bytes that cannot be parsed when another process wrote the
\* file in between; a failed open or write is only warned about.
C3_FailedRefreshFallsToConsent ==
    /\ [](\A p \in Procs : LET q == proc[p] IN
            /\ (q.refreshRes = "failed" /\ q.pc = "consent")
                  => (q.creds = None /\ q.nConsent = 0)
            /\ (q.refreshRes = "failed" /\ q.pc # "consent")
                  => /\ q.nRefresh = 1
                     /\ q.nConsent = 1
                     /\ q.consentRes \in {"ok", "failed", "nosecret"}
                     /\ (q.consentRes # "ok")
                           => (q.pc = "done" /\ q.result = Sentinel(q.op) /\ q.nSave = 0)
                     /\ (q.consentRes = "ok")
                           => /\ q.creds = Consented(FreshId(p, q))
                              /\ q.creds # q.loaded
                              /\ (q.used.kind = "cred" => q.used = q.creds)
                              /\ (q.pc = "save" => q.nSave = 0)
                              /\ (q.pc # "save") => q.nSave = 1)
    /\ [][\A p \in Procs :
            (proc[p].refreshRes = "failed" /\ proc[p].consentRes = "ok") => WriteStep(p)]_vars

C3_Witness ==
    \E p \in Procs : LET q == proc[p] IN
        /\ q.refreshRes = "failed" /\ q.consentRes = "ok" /\ q.pc = "done"
        /\ q.result \in {"True", "ID"} /\ q.used = q.creds
        /\ q.saveRes = "ok" /\ tokenFile = q.creds

\* C4: when the token file holds a valid credential, the step uses it
\* unchanged: no refresh, no consent flow, and no write of the token file.
C4_ValidCredentialUntouched ==
    \A p \in Procs : LET q == proc[p] IN
        (q.loaded.kind = "cred" /\ q.loaded.valid)
            => /\ q.nRefresh = 0
               /\ q.nConsent = 0
               /\ q.nSave = 0
               /\ q.saveRes = "none"
               /\ q.creds = q.loaded
               /\ q.pc \notin {"refresh", "consent", "save", "write"}
               /\ (q.used.kind = "cred" => q.used = q.loaded)

C4_Witness ==
    \E p \in Procs : LET q == proc[p] IN
        /\ q.loaded.kind = "cred" /\ q.loaded.valid
        /\ q.pc = "done" /\ q.result = "True" /\ q.used = q.loaded
        /\ tokenFile = q.loaded /\ lastWriter = 0


\* The consent flow of q's credential step could not be completed.
ConsentFailed(q) == q.consentRes \in {"failed", "nosecret"}

\* delete_spreadsheet was called with a name only and is past the name lookup.
DeleteByNameAfterLookup(q) ==
    q.op = "delete_spreadsheet" /\ ~q.hasId /\ q.hasName /\ q.frame = "outer"

\* C5 (as claimed): when the client-secret file is missing, or the consent flow
\* fails or is denied, the operation returns its failure sentinel without
\* retrying consent, without writing the token file, and without issuing any
\* vendor API call.
C5_ConsentFailureNoVendorCall ==
    \A p \in Procs : LET q == proc[p] IN
        ConsentFailed(q)
            => /\ q.pc = "done"
               /\ q.result = Sentinel(q.op)
               /\ q.nConsent = 1
               /\ q.nSave = 0
               /\ q.opWrites = 0
               /\ q.opApi = 0

\* C5 (amended): on a missing client-secret file or a failed or denied consent
\* the operation returns its failure sentinel, with one consent attempt, no
\* write of the token file by the credential step that failed and no vendor
\* API call after the failure; all the operation can have done before is what
\* delete_spreadsheet, called with a name only, does through
\* find_spreadsheet_by_name before its own credential step: one name search
\* (files.list) and at most one write of the token file.
C5_ConsentFailureReturnsSentinel ==
    \A p \in Procs : LET q == proc[p] IN
        ConsentFailed(q)
            => /\ q.pc = "done"
               /\ q.result = Sentinel(q.op)
               /\ (q.consentRes = "nosecret") <=> ~secretFile
               /\ q.nConsent = 1
               /\ q.nSave = 0
               /\ q.saveRes = "none"
               /\ q.used = None
               /\ IF DeleteByNameAfterLookup(q) THEN q.opApi = 1 /\ q.opWrites <= 1
                  ELSE q.opApi = 0 /\ q.opWrites = 0

C5_Witness ==
    /\ \E p \in Procs : LET q == proc[p] IN
          /\ q.consentRes = "failed" /\ q.pc = "done" /\ q.result = "False"
          /\ DeleteByNameAfterLookup(q) /\ q.opApi = 1
    /\ \E p \in Procs : LET q == proc[p] IN
          /\ q.consentRes = "failed" /\ q.pc = "done" /\ q.result = "None"
          /\ q.nConsent = 1 /\ q.opApi = 0

\* A step of process p is possible.
CanStep(p) ==
    \/ ENABLED DeleteResolve(p)
    \/ ENABLED LoadToken(p)
    \/ ENABLED Refresh(p)
    \/ ENABLED Consent(p)
    \/ ENABLED OpenToken(p)
    \/ ENABLED SaveToken(p)
    \/ ENABLED BuildService(p)
    \/ ENABLED CreateRequest(p)
    \/ ENABLED ListFiles(p)
    \/ ENABLED DeleteGetInfo(p)
    \/ ENABLED DeleteConfirm(p)
    \/ ENABLED DeleteRequest(p)

\* C6: every run of the credential step makes at most one refresh attempt and
\* at most one consent attempt, consent runs after a refresh only when that
\* refresh failed, and a step that has not returned can always go on (it never
\* waits on the other process).
C6_AtMostOneRefreshOneConsent ==
    \A p \in Procs : LET q == proc[p] IN
        /\ q.nRefresh <= 1
        /\ q.nConsent <= 1
        /\ q.nSave <= 1
        /\ (q.nRefresh = 1 /\ q.nConsent = 1) => q.refreshRes = "failed"
        /\ (q.refreshRes = "failed") => (q.pc = "consent" \/ q.nConsent = 1)
        /\ (q.pc \notin {"idle", "done"}) => CanStep(p)

C6_Witness ==
    \E p \in Procs : LET q == proc[p] IN
        /\ q.nRefresh = 1 /\ q.nConsent = 1 /\ q.nSave = 1
        /\ q.pc = "done" /\ q.result = "True"

\* Processes p and r both loaded the same expired, refreshable credential,
\* both refreshed it and both wrote the token file.
RacedRefresh(p, r) ==
    /\ p # r
    /\ CanRefresh(proc[p].loaded)
    /\ proc[p].loaded = proc[r].loaded
    /\ proc[p].refreshRes = "ok" /\ proc[r].refreshRes = "ok"
    /\ proc[p].saveRes = "ok" /\ proc[r].saveRes = "ok"

\* C7: the token file is read and overwritten without locking: two processes
\* can read the same stale credential, both refresh it and both write the
\* file, and the file then holds the credential of the process that wrote
\* last: always when its bytes landed on the file as its own open left it,
\* and otherwise that credential or a mix that cannot be parsed; in no case
\* does the file hold the other process's credential, which is lost.
C7_LastWriterWins ==
    \A p \in Procs, r \in Procs :
        (RacedRefresh(p, r) /\ lastWriter = p)
            => /\ tokenFile \in SavedBy(p)
               /\ (~proc[p].wroteOver => tokenFile = proc[p].creds)
               /\ tokenFile # proc[r].creds
               /\ proc[r].creds.valid

C7_Witness ==
    \E p \in Procs, r \in Procs :
        /\ RacedRefresh(p, r) /\ lastWriter = p
        /\ proc[p].pc = "done" /\ proc[r].pc = "done"
        /\ proc[p].result = "True" /\ proc[r].result = "True"
        /\ tokenFile = proc[p].creds


(***************************************************************************)
(* Drive.extract_id                                                        *)
(*                                                                         *)
(* A string is a sequence of one-character strings.                        *)
(***************************************************************************)
Lower == {"a", "b", "c", "d", "e", "f", "g", "h", "i", "j", "k", "l", "m",
          "n", "o", "p", "q", "r", "s", "t", "u", "v", "w", "x", "y", "z"}
Upper == {"A", "B", "C", "D", "E", "F", "G", "H", "I", "J", "K", "L", "M",
          "N", "O", "P", "Q", "R", "S", "T", "U", "V", "W", "X", "Y", "Z"}
Digit == {"0", "1", "2", "3", "4", "5", "6", "7", "8", "9"}

\* The character class [a-zA-Z0-9-_].
IdChar(c) == c \in Lower \cup Upper \cup Digit \cup {"-", "_"}

\* Python's `lit in s`.
HasSub(s, lit) ==
    \E i \in 1..(Len(s) - Len(lit) + 1) : SubSeq(s, i, i + Len(lit) - 1) = lit

GoogleCom == <<"g", "o", "o", "g", "l", "e", ".", "c", "o", "m">>
DriveGoogleCom == <<"d", "r", "i", "v", "e", ".", "g", "o", "o", "g", "l", "e", ".", "c", "o", "m">>
DocsGoogleCom == <<"d", "o", "c", "s", ".", "g", "o", "o", "g", "l", "e", ".", "c", "o", "m">>

\* Variant: any '.com' host counts as a marker.
HasHostMarkerAnyCom(s) == HasSub(s, <<".", "c", "o", "m">>)

\* 'google.com' in url_or_id or 'drive.google.com' in url_or_id or
\* 'docs.google.com' in url_or_id
HasHostMarker(s) ==
    \/ HasSub(s, GoogleCom)
    \/ HasSub(s, DriveGoogleCom)
    \/ HasSub(s, DocsGoogleCom)

\* The regular expressions, in the order the code tries them. Each is a set of
\* alternative literal prefixes followed by the group ([a-zA-Z0-9-_]+).
TypedPath == {<<"/", "s", "p", "r", "e", "a", "d", "s", "h", "e", "e", "t", "s", "/", "d", "/">>,
              <<"/", "d", "o", "c", "u", "m", "e", "n", "t", "/", "d", "/">>,
              <<"/", "p", "r", "e", "s", "e", "n", "t", "a", "t", "i", "o", "n", "/", "d", "/">>,
              <<"/", "f", "o", "r", "m", "s", "/", "d", "/">>}
FilePath == {<<"/", "f", "i", "l", "e", "/", "d", "/">>}
IdParam == {<<"?", "i", "d", "=">>, <<"&", "i", "d", "=">>}
ShortPath == {<<"/", "d", "/">>}
BareIdParam == {<<"i", "d", "=">>}

\* Variant: the generic patterns are tried before the typed ones.
patternsGenericFirst == <<IdParam, ShortPath, TypedPath, FilePath, BareIdParam>>
patterns == <<TypedPath, FilePath, IdParam, ShortPath, BareIdParam>>

\* Positions where pattern pat matches: a literal followed by an ID character.
MatchStarts(pat, s) ==
    {i \in 1..Len(s) : \E lit \in pat :
        /\ i + Len(lit) <= Len(s)
        /\ SubSeq(s, i, i + Len(lit) - 1) = lit
        /\ IdChar(s[i + Len(lit)])}

Min(S) == CHOOSE x \in S : \A y \in S : x <= y
Max(S) == CHOOSE x \in S : \A y \in S : x >= y

\* Variant: a lazy group ([a-zA-Z0-9-_]+?) stops after one character.
GroupEndLazy(s, j) == j

\* The greedy group: the longest run of ID characters that starts at j.
GroupEnd(s, j) == Max({k \in j..Len(s) : \A m \in j..k : IdChar(s[m])})

\* re.search(pattern, s): the leftmost match and its group(1).
re_search(pat, s) ==
    IF MatchStarts(pat, s) = {} THEN [matched |-> FALSE, group1 |-> <<>>]
    ELSE LET i == Min(MatchStarts(pat, s))
             lit == CHOOSE l \in pat :
                       /\ i + Len(l) <= Len(s)
                       /\ SubSeq(s, i, i + Len(l) - 1) = l
                       /\ IdChar(s[i + Len(l)])
             j == i + Len(lit)
         IN [matched |-> TRUE, group1 |-> SubSeq(s, j, GroupEnd(s, j))]

\* Variant: a reference no pattern matches is handed back as if it were an ID.
extract_idLenient(s) ==
    IF ~HasHostMarker(s) THEN [called |-> TRUE, ok |-> TRUE, id |-> s]
    ELSE LET hits == {k \in 1..Len(patterns) : re_search(patterns[k], s).matched} IN
         IF hits = {} THEN [called |-> TRUE, ok |-> TRUE, id |-> s]
         ELSE [called |-> TRUE, ok |-> TRUE,
               id |-> re_search(patterns[Min(hits)], s).group1]

\* The outcome of Drive.extract_id(url_or_id): the returned ID, or ValueError.
extract_id(s) ==
    IF ~HasHostMarker(s) THEN [called |-> TRUE, ok |-> TRUE, id |-> s]
    ELSE LET hits == {k \in 1..Len(patterns) : re_search(patterns[k], s).matched} IN
         IF hits = {} THEN [called |-> TRUE, ok |-> FALSE, id |-> <<>>]
         ELSE [called |-> TRUE, ok |-> TRUE,
               id |-> re_search(patterns[Min(hits)], s).group1]

\* Reference strings: an optional host followed by up to MaxSegs path or query
\* fragments, each followed by a candidate ID (possibly empty).
ExampleHost == <<"e", "x", "a", "m", "p", "l", "e", ".", "c", "o", "m">>
DocsHost == <<"h", "t", "t", "p", "s", ":", "/", "/", "d", "o", "c", "s", ".", "g", "o", "o", "g", "l", "e", ".", "c", "o", "m">>
DriveHost == <<"h", "t", "t", "p", "s", ":", "/", "/", "d", "r", "i", "v", "e", ".", "g", "o", "o", "g", "l", "e", ".", "c", "o", "m", "/", "o", "p", "e", "n">>
GoogleHosts == {DocsHost, DriveHost}
Hosts == {<<>>, ExampleHost} \cup GoogleHosts
UnknownPath == <<"/", "u", "n", "k", "n", "o", "w", "n", "/">>
Prefixes == TypedPath \cup FilePath \cup IdParam \cup ShortPath \cup BareIdParam
               \cup {UnknownPath}
IdA == <<"a", "B", "3">>
IdB == <<"x", "-", "_", "9">>
Ids == {IdA, IdB}
Bodies == {<<>>} \cup Ids

RECURSIVE SegStrings(_)
SegStrings(n) ==
    IF n = 0 THEN {<<>>}
    ELSE SegStrings(n - 1) \cup
         {s \o p \o b : s \in SegStrings(n - 1), p \in Prefixes, b \in Bodies}

References == {h \o s : h \in Hosts, s \in SegStrings(MaxSegs)}

CredIdle ==
    /\ tokenFile = Missing
    /\ secretFile = FALSE
    /\ lastWriter = 0
    /\ calls = 0
    /\ proc = [p \in Procs |-> IdleProc]

InitExtract ==
    /\ CredIdle /\ FacIdle /\ HelpersIdle
    /\ ref \in References /\ out = [called |-> FALSE, ok |-> FALSE, id |-> <<>>]

\* A caller applies Drive.extract_id to the reference.
ExtractId ==
    /\ ~out.called
    /\ out' = extract_id(ref)
    /\ UNCHANGED <<ref, credVars, facVars, helperVars>>

NextExtract == ExtractId

SpecExtract == InitExtract /\ [][NextExtract]_vars

(***************************************************************************)
(* Properties of Drive.extract_id                                          *)
(***************************************************************************)
\* C8: for every reference string that contains no host marker, extract_id
\* returns the input string unchanged, whatever its shape.
C8_NoMarkerIdentity ==
    (out.called /\ ~HasSub(ref, GoogleCom)) => (out.ok /\ out.id = ref)

C8_Witness ==
    /\ out.called /\ out.ok /\ out.id = ref
    /\ ref = ExampleHost \o <<"/", "f", "i", "l", "e", "/", "d", "/">> \o IdA
                \o <<"?", "i", "d", "=">> \o IdB

\* The URL shapes extract_id documents.
KnownShapes == TypedPath \cup FilePath \cup IdParam \cup ShortPath

\* s is a URL of one known shape on a Google host with the embedded ID id:
\* host, shape and ID, then nothing or a remainder that starts with a
\* character no ID contains and holds no further shape.
IsKnownShapeUrl(s, id) ==
    \E h \in GoogleHosts, sh \in KnownShapes :
        LET head == h \o sh \o id
            rest == SubSeq(s, Len(head) + 1, Len(s))
        IN /\ Len(s) >= Len(head)
           /\ SubSeq(s, 1, Len(head)) = head
           /\ (rest # <<>>) => ~IdChar(rest[1])
           /\ \A k \in 1..Len(patterns) : MatchStarts(patterns[k], rest) = {}

\* C9: for every URL of a known shape on a Google host, extract_id returns
\* exactly the embedded ID.
C9_KnownShapeYieldsId ==
    out.called => \A id \in Ids : IsKnownShapeUrl(ref, id) => (out.ok /\ out.id = id)

C9_Witness ==
    /\ out.called /\ out.ok /\ out.id = IdB
    /\ ref = DocsHost \o <<"/", "d", "/">> \o IdB \o UnknownPath
    /\ IsKnownShapeUrl(ref, IdB)

\* The order the specification gives: typed resource path, file path, id=
\* query parameter, generic short path.
DocumentedOrder == <<TypedPath, FilePath, IdParam, ShortPath>>

\* C10: when a reference with a host marker matches more than one pattern,
\* extract_id returns the capture of the earliest pattern in the documented
\* order; a compound URL with a typed resource path ID and an id= parameter
\* yields the typed path ID, whichever of the two comes first in the string.
C10_EarliestPatternWins ==
    (out.called /\ HasSub(ref, GoogleCom)) =>
        /\ LET hits == {k \in 1..Len(DocumentedOrder) :
                           MatchStarts(DocumentedOrder[k], ref) # {}}
           IN Cardinality(hits) > 1 =>
                 /\ out.ok
                 /\ out.id = re_search(DocumentedOrder[Min(hits)], ref).group1
        /\ \A h \in GoogleHosts, t \in TypedPath, q \in IdParam, a \in Ids, b \in Ids :
              (ref = h \o t \o a \o q \o b \/ ref = h \o q \o b \o t \o a)
                  => (out.ok /\ out.id = a)

C10_Witness ==
    /\ out.called /\ out.ok /\ out.id = IdA
    /\ ref = DriveHost \o <<"?", "i", "d", "=">> \o IdB
                \o <<"/", "s", "p", "r", "e", "a", "d", "s", "h", "e", "e", "t", "s", "/", "d", "/">>
                \o IdA

\* No fragment the code's patterns look for (a typed resource path, a file
\* path, a short path or an id= parameter) is followed by an ID character
\* anywhere in s.
MatchesNoPattern(s) ==
    \A lit \in TypedPath \cup FilePath \cup IdParam \cup ShortPath \cup BareIdParam :
        \A i \in 1..Len(s) :
            (i + Len(lit) <= Len(s) /\ SubSeq(s, i, i + Len(lit) - 1) = lit)
                => ~IdChar(s[i + Len(lit)])

\* C11: for every reference that contains a host marker but matches none of
\* the patterns, extract_id fails with ValueError and returns no ID.
C11_UnrecognizedReferenceFails ==
    (out.called /\ HasSub(ref, GoogleCom) /\ MatchesNoPattern(ref))
        => (~out.ok /\ out.id = <<>>)

C11_Witness ==
    /\ out.called /\ ~out.ok /\ out.id = <<>>
    /\ ref = DocsHost \o UnknownPath \o IdB
    /\ MatchesNoPattern(ref)

(***************************************************************************)
(* The facades: Jira, Confluence, GoogleSheets and Drive.find_by_name      *)
(*                                                                         *)
(* One caller, one call at a time. A request is one call of the vendor     *)
(* SDK or of the HTTP session that goes to the remote system.              *)
(***************************************************************************)
Constructors == {"Jira.__init__", "Confluence.__init__", "GoogleSheets.__init__"}
JiraReads == {"Jira.get_issue", "Jira.search_issues", "Jira.get_projects", "Jira.get_project",
              "Jira.get_issue_types", "Jira.get_users_with_roles", "Jira.get_groups",
              "Jira.get_group_members", "Jira.get_project_components",
              "Jira.get_project_custom_fields"}
JiraWrites == {"Jira.create_issue", "Jira.update_issue", "Jira.add_comment",
               "Jira.create_component", "Jira.update_component"}
ConfluenceReads == {"Confluence.get_spaces", "Confluence.search_content",
                    "Confluence.search_in_space", "Confluence.get_space_content"}
ConfluenceOps == {"Confluence.test_connection"} \cup ConfluenceReads
SheetsReads == {"GoogleSheets.get_sheet_list", "GoogleSheets.read_all",
                "GoogleSheets.read_range", "GoogleSheets.get_spreadsheet_info"}
SheetsWrites == {"GoogleSheets.write_row", "GoogleSheets.write_cell",
                 "GoogleSheets.write_range"}
FindOps == {"GoogleSheets.find_spreadsheet_by_name", "Drive.find_by_name"}
CredentialOps == {"GoogleSheets.authenticate", "GoogleSheets.create_spreadsheet",
                  "GoogleSheets.create_and_get_instance",
                  "GoogleSheets.delete_spreadsheet"} \cup FindOps
FacadeOps == Constructors \cup JiraReads \cup JiraWrites \cup ConfluenceOps
                \cup SheetsReads \cup SheetsWrites \cup CredentialOps

\* Variant: every operation returns None when it gives up.
FacSentinelNone(op) == "None"

\* What an operation returns when it gives up: False where the method is
\* declared -> bool, None elsewhere.
FacSentinel(op) ==
    IF op \in {"Jira.update_issue", "Jira.add_comment", "Jira.update_component",
               "Confluence.test_connection", "GoogleSheets.authenticate",
               "GoogleSheets.delete_spreadsheet"} \cup SheetsWrites
    THEN "False" ELSE "None"

\* What an operation returns when all went well: True, the object the
\* vendor created, the ID of the file, or the data read.
FacSuccess(op) ==
    IF FacSentinel(op) = "False" THEN "True"
    ELSE IF op \in {"Jira.create_issue", "Jira.create_component",
                     "GoogleSheets.create_and_get_instance"} \cup Constructors THEN "object"
    ELSE IF op \in {"GoogleSheets.create_spreadsheet"} \cup FindOps THEN "ID"
    ELSE "data"

\* One vendor request of an operation: the SDK call, whether it changes
\* remote state, the step that follows its success and the step that follows
\* its failure (0: the operation returns its sentinel; a step past the last
\* one: the operation returns its result).
Req(c, w, ok, err) == [call |-> c, write |-> w, ok |-> ok, err |-> err]

\* n read requests at steps from+1 .. from+n that follow one another whether
\* they succeed or fail: the loop body catches the exception and goes on.
Each(c, from, n) == [i \in 1..n |-> Req(c, FALSE, from + i + 1, from + i + 1)]

\* Jira.get_users_with_roles, where the vendor holds q.todo roles (with a
\* usable ID), users and groups, and the user record number q.bad lacks an
\* attribute the code reads (0: every record is complete). With a project:
\* project_roles, then project_role for each role. Without: search_users(''),
\* on failure search_users('.'), then for each user its attributes are read
\* and, when include_groups, user_groups is asked. The fallback, groups() and
\* group_members for each group, is entered when both searches fail and when
\* reading a user record raises (the users before it have been handled): the
\* AttributeError is caught by the same except clause as the failed search.
UsersWithRoles(q) ==
    IF q.project
    THEN <<Req("project_roles", FALSE, 2, 0)>> \o Each("project_role", 1, q.todo)
    ELSE LET k == IF ~q.include_groups THEN 0
                  ELSE IF q.bad = 0 THEN q.todo ELSE q.bad - 1
             G == 3 + k
             End == G + q.todo + 1
             after == IF q.bad = 0 THEN End ELSE G
             first == IF k = 0 THEN after ELSE 3
         IN <<Req("search_users", FALSE, first, 2), Req("search_users", FALSE, first, G)>>
            \o [i \in 1..k |-> Req("user_groups", FALSE, IF i = k THEN after ELSE 3 + i,
                                   IF i = k THEN after ELSE 3 + i)]
            \o <<Req("groups", FALSE, G + 1, 0)>>
            \o Each("group_members", G, q.todo)

\* The vendor requests of an operation, in the order the code issues them.
Requests(q) ==
    CASE q.op = "Jira.get_issue" -> <<Req("issue", FALSE, 2, 0)>>
      [] q.op = "Jira.search_issues" -> <<Req("search_issues", FALSE, 2, 0)>>
      [] q.op = "Jira.create_issue" -> <<Req("create_issue", TRUE, 2, 0)>>
      [] q.op = "Jira.get_projects" -> <<Req("projects", FALSE, 2, 0)>>
      [] q.op = "Jira.get_project" -> <<Req("project", FALSE, 2, 0)>>
      [] q.op = "Jira.update_issue" ->
            <<Req("issue", FALSE, 2, 0), Req("issue.update", TRUE, 3, 0)>>
      [] q.op = "Jira.add_comment" -> <<Req("add_comment", TRUE, 2, 0)>>
      [] q.op = "Jira.get_issue_types" -> <<Req("issue_types", FALSE, 2, 0)>>
      [] q.op = "Jira.get_users_with_roles" -> UsersWithRoles(q)
      [] q.op = "Jira.get_groups" -> <<Req("groups", FALSE, 2, 0)>>
      [] q.op = "Jira.get_group_members" -> <<Req("group_members", FALSE, 2, 0)>>
      [] q.op = "Jira.get_project_components" ->
            <<Req("project", FALSE, 2, 0), Req("project_components", FALSE, 3, 0)>>
      [] q.op = "Jira.create_component" ->
            IF q.lead
            THEN <<Req("user", FALSE, 2, 2), Req("create_component", TRUE, 3, 0)>>
            ELSE <<Req("create_component", TRUE, 2, 0)>>
      [] q.op = "Jira.update_component" ->
            IF q.lead
            THEN <<Req("component", FALSE, 2, 0), Req("user", FALSE, 3, 0),
                   Req("component.update", TRUE, 4, 0)>>
            ELSE <<Req("component", FALSE, 2, 0), Req("component.update", TRUE, 3, 0)>>
      [] q.op = "Jira.get_project_custom_fields" ->
            <<Req("project", FALSE, 2, 0), Req("fields", FALSE, 3, 0),
              Req("search_issues", FALSE, 4, 4)>>
      [] q.op \in {"GoogleSheets.get_sheet_list", "GoogleSheets.get_spreadsheet_info"} ->
            <<Req("spreadsheets.get", FALSE, 2, 0)>>
      [] q.op \in {"GoogleSheets.read_all", "GoogleSheets.read_range"} ->
            <<Req("values.get", FALSE, 2, 0)>>
      [] q.op = "GoogleSheets.write_row" ->
            IF q.row_number THEN <<Req("values.update", TRUE, 2, 0)>>
            ELSE <<Req("values.append", TRUE, 2, 0)>>
      [] q.op \in {"GoogleSheets.write_cell", "GoogleSheets.write_range"} ->
            <<Req("values.update", TRUE, 2, 0)>>
      [] q.op \in {"GoogleSheets.create_spreadsheet",
                   "GoogleSheets.create_and_get_instance"} ->
            <<Req("spreadsheets.create", TRUE, 2, 0)>>
      [] OTHER -> <<>>

\* The letters in alphabetical order.
AlphaUpper == <<"A", "B", "C", "D", "E", "F", "G", "H", "I", "J", "K", "L", "M",
                "N", "O", "P", "Q", "R", "S", "T", "U", "V", "W", "X", "Y", "Z">>


\* chr(c) for the code points from 64 ('@') to 95 ('_').
CharsFrom64 == <<"@">> \o AlphaUpper \o <<"[", "\\", "]", "^", "_">>
chr(c) == CharsFrom64[c - 63]

\* str(n) for a natural number.
DigitChars == <<"0", "1", "2", "3", "4", "5", "6", "7", "8", "9">>
RECURSIVE str(_)
str(n) == IF n < 10 THEN <<DigitChars[n + 1]>> ELSE str(n \div 10) \o <<DigitChars[(n % 10) + 1]>>

\* write_row: the name of the sheet, the lengths of row_data and the values
\* of row_number that are tried.
SheetName == <<"S">>
RowLengths == {1, 26, 27}
RowNumbers == {1, 12}

\* write_row: f"{sheet_name}!A:A" when row_number is None, else
\* f"{sheet_name}!A{row_number}:{chr(65 + len(row_data) - 1)}{row_number}".
range_name(q) ==
    IF ~q.row_number THEN SheetName \o <<"!", "A", ":", "A">>
    ELSE SheetName \o <<"!", "A">> \o str(q.n) \o <<":">> \o <<chr(65 + q.k - 1)>> \o str(q.n)

\* Inputs of the calls.
Limits == {-1, 25, ConfluenceMaxLimit, ConfluenceMaxLimit + 1, 2 * ConfluenceMaxLimit + 100}
\* The pairs of limit and start that are tried.
Pages == {[limit |-> l, start |-> 0] : l \in Limits}
            \cup {[limit |-> l, start |-> 50] : l \in {25, 2 * ConfluenceMaxLimit + 100}}
SheetRefs == {IdA,
              DocsHost \o <<"/", "s", "p", "r", "e", "a", "d", "s", "h", "e", "e", "t", "s", "/", "d", "/">>
                  \o IdA \o <<"/", "e", "d", "i", "t">>,
              DocsHost \o UnknownPath \o IdB}

\* extract_id on the references the facade is given, tabulated.
ExtractedIds == [u \in SheetRefs \cup {IdA, IdB} |-> extract_id(u)]

\* The arguments a call of op can be given (those that decide its path).
Args(op) ==
    CASE op \in {"Jira.create_component", "Jira.update_component"} ->
            {[lead |-> l] : l \in BOOLEAN}
      [] op = "Jira.get_users_with_roles" ->
            {a \in [project : BOOLEAN, include_groups : BOOLEAN, todo : 0..MaxItems,
                    bad : 0..MaxItems] : a.bad <= a.todo /\ (a.project => a.bad = 0)}
      [] op = "GoogleSheets.delete_spreadsheet" ->
            {[hasId |-> i, hasName |-> n] : i \in BOOLEAN, n \in BOOLEAN}
      [] op = "GoogleSheets.write_row" ->
            {[row_number |-> FALSE, k |-> k] : k \in RowLengths}
              \cup {[row_number |-> TRUE, n |-> n, k |-> k] : n \in RowNumbers, k \in RowLengths}
      [] op = "Confluence.__init__" -> {[default_space |-> d] : d \in {"None", "OPS"}}
      [] op = "Confluence.search_content" ->
            {With(p, [query |-> "q"]) : p \in Pages}
              \cup {[limit |-> 25, query |-> q, space_key |-> k, content_type |-> t,
                     use_default_space |-> u] :
                        q \in {"q"}, k \in {"None", "", "DEV"}, t \in {"None", "page"},
                        u \in BOOLEAN}
      [] op = "Confluence.get_space_content" ->
            Pages
      [] op = "Confluence.search_in_space" ->
            {[limit |-> l, query |-> "q", space_key |-> "DEV"] : l \in Limits}
      [] op = "GoogleSheets.__init__" -> {[url |-> u] : u \in SheetRefs}
      [] OTHER -> {[lead |-> FALSE]}

\* The object the method is called on exists.
Callable(op, q) ==
    /\ op \in JiraReads \cup JiraWrites => q.jira # "absent"
    /\ op \in ConfluenceOps => q.confluence # "absent"
    /\ op \in SheetsReads \cup SheetsWrites \cup {"GoogleSheets.authenticate"}
          => q.service # "absent"

\* The operation up to its first remote interaction: the constructors'
\* assignments, `if not self.jira`, `if not self.service`, and the argument
\* check of delete_spreadsheet.
Entry(q) ==
    CASE q.op = "Jira.__init__" -> With(q, [jira |-> "none", pc |-> "connect"])
      [] q.op = "Confluence.__init__" -> Return(With(q, [confluence |-> "session"]), "object")
      [] q.op = "GoogleSheets.__init__" ->
            LET r == ExtractedIds[q.url] IN
            IF r.ok THEN Return(With(q, [spreadsheet_id |-> r.id, service |-> "none"]), "object")
            ELSE Return(q, "raised")
      [] q.op \in JiraReads \cup JiraWrites ->
            With(q, [pc |-> IF q.jira = "none" THEN "connect" ELSE "request", step |-> 1])
      [] q.op \in SheetsReads \cup SheetsWrites ->
            IF q.service = "none" THEN Return(With(q, [errors |-> 1]), FacSentinel(q.op))
            ELSE With(q, [pc |-> "request", step |-> 1])
      [] q.op \in ConfluenceOps -> With(q, [pc |-> "get"])
      [] q.op = "GoogleSheets.delete_spreadsheet" ->
            IF ~q.hasId /\ ~q.hasName
            THEN Return(With(q, [ncall |-> q.ncall + 1, errors |-> 1]), "False")
            ELSE With(q, [ncall |-> q.ncall + 1, nested |-> ~q.hasId, pc |-> "load"])
      [] OTHER -> With(q, [ncall |-> q.ncall + 1, pc |-> "load"])

\* The caller invokes a constructor or a public method.
FacCall ==
    /\ fac.pc \in {"idle", "done"}
    /\ fac.ncalls < MaxFacCalls
    /\ \E op \in FacadeOps :
         /\ Callable(op, fac)
         /\ \E a \in Args(op) :
              fac' = Entry(With(With(With(fac, NoCall), a),
                                [op |-> op, ncalls |-> fac.ncalls + 1]))
    /\ UNCHANGED <<credVars, extractVars, helperVars>>

\* Variant: a connection that failed is tried a second time.
FacConnectAgain ==
    /\ fac.pc = "connect"
    /\ \E ok \in BOOLEAN :
         fac' = LET q == With(fac, [reqs |-> fac.reqs + 1,
                                    connects |-> fac.connects + 1,
                                    errors |-> fac.errors + (IF ok THEN 0 ELSE 1),
                                    jira |-> IF ok THEN "session" ELSE fac.jira])
                IN IF ~ok /\ fac.connects = 0 THEN q
                   ELSE IF fac.op = "Jira.__init__" THEN Return(q, "object")
                   ELSE IF ok THEN With(q, [pc |-> "request", step |-> 1])
                   ELSE Return(q, FacSentinel(fac.op))
    /\ UNCHANGED <<credVars, extractVars, helperVars>>

\* Jira._connect: JIRA(server, basic_auth) inside try/except.
FacConnect ==
    /\ fac.pc = "connect"
    /\ \E ok \in BOOLEAN :
         fac' = LET q == With(fac, [reqs |-> fac.reqs + 1,
                                    connects |-> fac.connects + 1,
                                    errors |-> fac.errors + (IF ok THEN 0 ELSE 1),
                                    jira |-> IF ok THEN "session" ELSE fac.jira])
                IN IF fac.op = "Jira.__init__" THEN Return(q, "object")
                   ELSE IF ok THEN With(q, [pc |-> "request", step |-> 1])
                   ELSE Return(q, FacSentinel(fac.op))
    /\ UNCHANGED <<credVars, extractVars, helperVars>>

\* Variant: the lead is sent as the caller gave it.
LeadFieldAsGiven(q) == q.lead

\* create_component / update_component: the dictionary sent has a 'lead'
\* entry only when self.jira.user(lead) returned the user.
LeadField(q) == q.leadLookup = "found"

\* The IDs the server can give a new spreadsheet.
NewIds == {IdA, IdB}

\* Variant: create_and_get_instance hands out the new instance without
\* authenticating it.
CompletedUnauthenticated(q, id) ==
    IF q.op = "GoogleSheets.create_and_get_instance"
    THEN Return(With(q, [created |-> TRUE, newId |-> id, service |-> "none",
                         spreadsheet_id |-> ExtractedIds[id].id]), "object")
    ELSE IF q.op = "GoogleSheets.create_spreadsheet"
    THEN Return(With(q, [created |-> TRUE, newId |-> id]), "ID")
    ELSE Return(q, FacSuccess(q.op))

\* The operation's last request succeeded. create_spreadsheet returns
\* response.get('spreadsheetId'); create_and_get_instance goes on with
\* GoogleSheets(spreadsheet_id, ...) and instance.authenticate(); every other
\* operation returns its result.
Completed(q, id) ==
    IF q.op = "GoogleSheets.create_and_get_instance"
    THEN With(q, [created |-> TRUE, newId |-> id, ncall |-> q.ncall + 1, pc |-> "load"])
    ELSE IF q.op = "GoogleSheets.create_spreadsheet"
    THEN Return(With(q, [created |-> TRUE, newId |-> id]), "ID")
    ELSE Return(q, FacSuccess(q.op))

\* Variant: a request that failed is sent again.
FacRequestRetry ==
    /\ fac.pc = "request"
    /\ \E built \in BOOLEAN, ok \in BOOLEAN :
         LET plan == Requests(fac)
             r == plan[fac.step]
             q == With(fac, [reqs |-> fac.reqs + 1,
                             writes |-> fac.writes + (IF r.write THEN 1 ELSE 0),
                             errors |-> fac.errors + (IF ok THEN 0 ELSE 1)])
         IN /\ r.call # "spreadsheets.create" => built
            /\ ~built => ~ok
            /\ fac' = IF ~built
                      THEN Return(With(fac, [errors |-> fac.errors + 1]), FacSentinel(fac.op))
                      ELSE IF ~ok THEN q
                      ELSE IF r.ok > Len(plan) THEN Return(q, FacSuccess(fac.op))
                      ELSE With(q, [step |-> r.ok])
    /\ UNCHANGED <<credVars, extractVars, helperVars>>

\* A vendor request of the operation's plan, inside the operation's try/except.
\* id is the ID the server gives a spreadsheet it creates. create_spreadsheet
\* first builds its service, build('sheets', 'v4', credentials=creds), in the
\* same try: when that raises, None is returned and nothing was sent. Every
\* exception caught counts as an error: a request that fails and, in
\* get_users_with_roles, the malformed user record read after the request
\* (recordRaises), which sends the code to its fallback over the groups.
FacRequest ==
    /\ fac.pc = "request"
    /\ \E built \in BOOLEAN, ok \in BOOLEAN, id \in NewIds :
         LET plan == Requests(fac)
             r == plan[fac.step]
             next == IF ok THEN r.ok ELSE r.err
             recordRaises ==
                 /\ fac.op = "Jira.get_users_with_roles"
                 /\ ~fac.project /\ fac.bad > 0
                 /\ r.call = "user_groups" \/ (r.call = "search_users" /\ ok)
                 /\ plan[next].call = "groups"
             q == With(fac, [reqs |-> fac.reqs + 1,
                             writes |-> fac.writes + (IF r.write THEN 1 ELSE 0),
                             errors |-> fac.errors + (IF ok THEN 0 ELSE 1)
                                                   + (IF recordRaises THEN 1 ELSE 0),
                             leadLookup |-> IF r.call # "user" THEN fac.leadLookup
                                            ELSE IF ok THEN "found" ELSE "failed",
                             sentLead |-> IF r.write THEN LeadField(fac) ELSE fac.sentLead,
                             sentCall |-> r.call,
                             sentRange |-> IF fac.op = "GoogleSheets.write_row"
                                           THEN range_name(fac) ELSE fac.sentRange])
         IN /\ (~ok \/ r.call # "spreadsheets.create") => id = IdA
            /\ r.call # "spreadsheets.create" => built
            /\ ~built => ~ok
            /\ fac' = IF ~built
                      THEN Return(With(fac, [errors |-> fac.errors + 1]), FacSentinel(fac.op))
                      ELSE IF next = 0 THEN Return(q, FacSentinel(fac.op))
                      ELSE IF next > Len(plan) THEN Completed(q, id)
                      ELSE With(q, [step |-> next])
    /\ UNCHANGED <<credVars, extractVars, helperVars>>

\* The caller is process 1 of Spec: the access tokens it is handed are
\* those of its call number ncall, of the lookup nested in delete_spreadsheet
\* or of the function called.
FacFreshId(q) ==
    FreshId(1, [ncall |-> q.ncall, frame |-> IF q.nested THEN "nested" ELSE "outer"])

\* The credential step is over with a credential in hand: the function goes on
\* to its own requests.
FacProceed(q) ==
    IF q.nested \/ q.op \in FindOps THEN With(q, [pc |-> "list"])
    ELSE IF q.op = "GoogleSheets.authenticate" \/ q.created THEN With(q, [pc |-> "build"])
    ELSE IF q.op = "GoogleSheets.delete_spreadsheet" THEN With(q, [pc |-> "getinfo"])
    ELSE With(q, [pc |-> "request", step |-> 1])

\* The credential step ends the function: a lookup nested in
\* delete_spreadsheet that returns None makes delete_spreadsheet return False.
FacGiveUp(q) == Return(q, IF q.nested THEN "False" ELSE FacSentinel(q.op))

\* The credential step of a Google operation, step by step as in Spec. Load
\* the existing token: a file that is there and cannot be parsed (an empty
\* one too) raises the exception that is only warned about.
FacLoadToken ==
    /\ fac.pc = "load"
    /\ LET c == LoadCreds(tokenFile)
           q == With(fac, [creds |-> c, nCred |-> fac.nCred + 1,
                           errors |-> fac.errors
                                        + (IF tokenFile.kind \in {"unreadable", "empty"}
                                           THEN 1 ELSE 0)])
       IN fac' = IF AfterLoad(c) = "api" THEN FacProceed(q)
                 ELSE With(q, [pc |-> AfterLoad(c)])
    /\ UNCHANGED <<credVars, extractVars, helperVars>>

\* creds.refresh(Request()) in its try/except: one request to the
\* authorization server.
FacRefresh ==
    /\ fac.pc = "refresh"
    /\ \E ok \in BOOLEAN :
         LET c == IF ok THEN Refreshed(fac.creds, FacFreshId(fac))
                  ELSE RefreshFailure(fac.creds)
         IN fac' = With(fac, [creds |-> c, reqs |-> fac.reqs + 1,
                              errors |-> fac.errors + (IF ok THEN 0 ELSE 1),
                              pc |-> IF NeedsConsent(c) THEN "consent" ELSE "save"])
    /\ UNCHANGED <<credVars, extractVars, helperVars>>

\* InstalledAppFlow.from_client_secrets_file + run_local_server: without the
\* client-secret file nothing is sent; a consent that fails or is denied has
\* been sent. Both end the function.
FacConsent ==
    /\ fac.pc = "consent"
    /\ \E ok \in BOOLEAN :
         /\ ~secretFile => ~ok
         /\ fac' = IF ~secretFile
                   THEN FacGiveUp(With(fac, [errors |-> fac.errors + 1]))
                   ELSE IF ok
                   THEN With(fac, [creds |-> Consented(FacFreshId(fac)),
                                   reqs |-> fac.reqs + 1, pc |-> "save"])
                   ELSE FacGiveUp(With(fac, [reqs |-> fac.reqs + 1,
                                             errors |-> fac.errors + 1]))
    /\ UNCHANGED <<credVars, extractVars, helperVars>>

\* `with open(token_file, 'w') as token`: the file is emptied; an open that
\* raises leaves it as it was and is only warned about.
FacOpenToken ==
    /\ fac.pc = "save"
    /\ \E ok \in BOOLEAN :
         IF ok
         THEN /\ tokenFile' = Empty
              /\ fac' = With(fac, [pc |-> "write"])
         ELSE /\ UNCHANGED tokenFile
              /\ fac' = FacProceed(With(fac, [errors |-> fac.errors + 1]))
    /\ UNCHANGED <<secretFile, lastWriter, calls, proc, extractVars, helperVars>>

\* token.write(creds.to_json()): a write that raises is only warned about; it
\* leaves the file as it is or with the beginning of the text.
FacSaveToken ==
    /\ fac.pc = "write"
    /\ \E ok \in BOOLEAN :
         \E left \in WrittenOver(tokenFile, fac.creds, ok) :
            /\ tokenFile' = left
            /\ IF ok
               THEN /\ lastWriter' = 1
                    /\ fac' = FacProceed(fac)
               ELSE /\ UNCHANGED lastWriter
                    /\ fac' = FacProceed(With(fac, [errors |-> fac.errors + 1]))
    /\ UNCHANGED <<secretFile, calls, proc, extractVars, helperVars>>

\* Variant: the service handle is assigned before the build is known to
\* have worked.
FacBuildServiceEarly ==
    /\ fac.pc = "build"
    /\ \E ok \in BOOLEAN :
         fac' = IF ok THEN Return(With(fac, [service |-> "service"]), FacSuccess(fac.op))
                ELSE Return(With(fac, [service |-> "service", errors |-> fac.errors + 1]),
                            FacSentinel(fac.op))
    /\ UNCHANGED <<credVars, extractVars, helperVars>>

\* authenticate: self.service = build('sheets', 'v4', credentials=creds), the
\* only assignment of the handle after the constructor. In
\* create_and_get_instance the instance authenticated is the new one,
\* GoogleSheets(spreadsheet_id, ...), which the caller gets only when
\* authenticate() returned True.
FacBuildService ==
    /\ fac.pc = "build"
    /\ \E ok \in BOOLEAN :
         fac' = IF ~ok THEN Return(With(fac, [errors |-> fac.errors + 1]), FacSentinel(fac.op))
                ELSE IF fac.op = "GoogleSheets.create_and_get_instance"
                THEN Return(With(fac, [service |-> "service",
                                       spreadsheet_id |-> ExtractedIds[fac.newId].id]), "object")
                ELSE Return(With(fac, [service |-> "service"]), "True")
    /\ UNCHANGED <<credVars, extractVars, helperVars>>

\* The files a Drive search can answer with: up to MaxFiles files of the
\* searched name, each with its own id, listed in the order of the ids.
MimeTypes == {"spreadsheet", "document"}
File(i, t) == [name |-> "name", id |-> i, mimeType |-> t]
SearchResults(op) ==
    {fs \in UNION {[1..n -> {File(i, t) : i \in 1..MaxFiles,
                                          t \in IF op = "Drive.find_by_name" THEN MimeTypes
                                                ELSE {"spreadsheet"}}] : n \in 0..MaxFiles} :
        \A i \in DOMAIN fs, j \in DOMAIN fs : i < j => fs[i].id < fs[j].id}

\* The function whose search runs: the lookup nested in delete_spreadsheet is
\* find_spreadsheet_by_name.
Finder(q) == IF q.nested THEN "GoogleSheets.find_spreadsheet_by_name" ELSE q.op

\* Variant: only the name of a candidate is printed.
CandidateLineNameOnly(op, f) == <<f.name>>

\* The line printed for a candidate: Drive.find_by_name prints name, ID and
\* type; find_spreadsheet_by_name prints name and ID.
CandidateLine(op, f) ==
    IF op = "Drive.find_by_name" THEN <<f.name, f.id, f.mimeType>> ELSE <<f.name, f.id>>

\* Variant: with several matches the first one is taken.
ClassifyFirstMatch(q) ==
    IF q.files = <<>>
    THEN Return(With(q, [message |-> "not found", errors |-> q.errors + 1]),
                IF q.nested THEN "False" ELSE "None")
    ELSE IF q.nested THEN With(q, [message |-> "unique", id |-> q.files[1].id,
                                   nested |-> FALSE, pc |-> "load"])
    ELSE Return(With(q, [message |-> "unique", id |-> q.files[1].id]), "ID")

\* `if not files` / `elif len(files) == 1` / `else`: the message printed, the
\* candidates printed and the value returned. A nested lookup hands its
\* result to delete_spreadsheet, which returns False when it got None.
Classify(q) ==
    IF q.files = <<>>
    THEN Return(With(q, [message |-> "not found", errors |-> q.errors + 1]),
                IF q.nested THEN "False" ELSE "None")
    ELSE IF Len(q.files) = 1
    THEN IF q.nested THEN With(q, [message |-> "unique", id |-> q.files[1].id,
                                   nested |-> FALSE, pc |-> "load"])
         ELSE Return(With(q, [message |-> "unique", id |-> q.files[1].id]), "ID")
    ELSE Return(With(q, [message |-> "multiple", errors |-> q.errors + 1,
                         printed |-> [i \in DOMAIN q.files |->
                                         CandidateLine(Finder(q), q.files[i])]]),
                IF q.nested THEN "False" ELSE "None")

\* drive_service = build('drive', 'v3', credentials=creds), then
\* drive_service.files().list(q=query).execute() and the classification of
\* the answer, in one try: when build raises nothing is sent.
FacListFiles ==
    /\ fac.pc = "list"
    /\ \E built \in BOOLEAN, ok \in BOOLEAN, fs \in SearchResults(Finder(fac)) :
         /\ ~built => ~ok
         /\ ~ok => fs = <<>>
         /\ fac' = LET q == With(fac, [reqs |-> fac.reqs + (IF built THEN 1 ELSE 0)]) IN
                   IF ok THEN Classify(With(q, [listed |-> TRUE, files |-> fs]))
                   ELSE Return(With(q, [errors |-> q.errors + 1]),
                               IF q.nested THEN "False" ELSE "None")
    /\ UNCHANGED <<credVars, extractVars, helperVars>>

\* Variant: a file that is not found is deleted all the same.
FacDeleteGetInfoLenient ==
    /\ fac.pc = "getinfo"
    /\ \E answer \in {"nobuild", "ok", "404", "error"} :
         fac' = LET q == With(fac, [reqs |-> fac.reqs + (IF answer = "nobuild" THEN 0 ELSE 1),
                                    info |-> answer]) IN
                IF answer \in {"ok", "404"} THEN With(q, [pc |-> "confirm"])
                ELSE Return(With(q, [errors |-> q.errors + 1]), "False")
    /\ UNCHANGED <<credVars, extractVars, helperVars>>

\* delete_spreadsheet: drive_service = build('drive', 'v3', credentials=creds),
\* then drive_service.files().get(fileId, fields="name").execute(); a 404
\* returns False, any other error is raised again and caught below, as is a
\* build that raises ("nobuild"), after which nothing was sent.
FacDeleteGetInfo ==
    /\ fac.pc = "getinfo"
    /\ \E answer \in {"nobuild", "ok", "404", "error"} :
         fac' = LET q == With(fac, [reqs |-> fac.reqs + (IF answer = "nobuild" THEN 0 ELSE 1),
                                    info |-> answer]) IN
                IF answer = "ok" THEN With(q, [pc |-> "confirm"])
                ELSE Return(With(q, [errors |-> q.errors + 1]), "False")
    /\ UNCHANGED <<credVars, extractVars, helperVars>>

\* The characters str.strip() removes and \s matches in a str pattern, those
\* for which str.isspace() holds. A character without an escape of its own
\* is written by its code point.
Whitespace == {"\t", "\n", "U+000B", "\f", "\r", "U+001C", "U+001D", "U+001E", "U+001F",
               " ", "U+0085", "U+00A0", "U+1680", "U+2000", "U+2001", "U+2002", "U+2003",
               "U+2004", "U+2005", "U+2006", "U+2007", "U+2008", "U+2009", "U+200A",
               "U+2028", "U+2029", "U+202F", "U+205F", "U+3000"}

\* The character with code point n as the texts of this module write it: a
\* printable ASCII character (code points 32 to 126) as itself (the grave
\* accent, which a string of this language cannot hold, excepted), tab, line
\* feed, form feed and carriage return by their escapes, and every other
\* character by its code point in at least four hexadecimal digits
\* ("U+00C0").
Character(n) ==
    LET Ascii ==
        <<" ", "!", "\"", "#", "$", "%", "&", "'", "(", ")", "*", "+", ",", "-", ".", "/", "0",
          "1", "2", "3", "4", "5", "6", "7", "8", "9", ":", ";", "<", "=", ">", "?", "@", "A",
          "B", "C", "D", "E", "F", "G", "H", "I", "J", "K", "L", "M", "N", "O", "P", "Q", "R",
          "S", "T", "U", "V", "W", "X", "Y", "Z", "[", "\\", "]", "^", "_", "U+0060", "a", "b", "c",
          "d", "e", "f", "g", "h", "i", "j", "k", "l", "m", "n", "o", "p", "q", "r", "s", "t",
          "u", "v", "w", "x", "y", "z", "{", "|", "}", "~">>
        Hex == <<"0", "1", "2", "3", "4", "5", "6", "7", "8", "9",
                 "A", "B", "C", "D", "E", "F">>
        hex[m \in Nat] == IF m < 16 THEN Hex[m + 1]
                          ELSE hex[m \div 16] \o Hex[(m % 16) + 1]
    IN IF n \in 32..126 THEN Ascii[n - 31]
       ELSE IF n = 9 THEN "\t" ELSE IF n = 10 THEN "\n"
       ELSE IF n = 12 THEN "\f" ELSE IF n = 13 THEN "\r"
       ELSE "U+" \o (IF n < 16 THEN "000" ELSE IF n < 256 THEN "00"
                     ELSE IF n < 4096 THEN "0" ELSE "") \o hex[n]

\* str.lower() of one character, for every character whose lower case is one
\* character other than itself (the lower-case mapping of the interpreter's
\* Unicode tables, CPython 3.11, Unicode 14.0). The table is by code point:
\* <<first, last, step, offset>> says that the characters first, first + step,
\* ..., last have the lower case offset code points further on.
LowerCase ==
    LET LowerRuns ==
        {<<65, 90, 1, 32>>, <<192, 214, 1, 32>>, <<216, 222, 1, 32>>, <<256, 302, 2, 1>>, <<306, 310,
         2, 1>>, <<313, 327, 2, 1>>, <<330, 374, 2, 1>>, <<376, 376, 1, 0 - 121>>, <<377, 381, 2,
         1>>, <<385, 385, 1, 210>>, <<386, 388, 2, 1>>, <<390, 390, 1, 206>>, <<391, 391, 1, 1>>,
         <<393, 394, 1, 205>>, <<395, 395, 1, 1>>, <<398, 398, 1, 79>>, <<399, 399, 1, 202>>, <<400,
         400, 1, 203>>, <<401, 401, 1, 1>>, <<403, 403, 1, 205>>, <<404, 404, 1, 207>>, <<406, 406,
         1, 211>>, <<407, 407, 1, 209>>, <<408, 408, 1, 1>>, <<412, 412, 1, 211>>, <<413, 413, 1,
         213>>, <<415, 415, 1, 214>>, <<416, 420, 2, 1>>, <<422, 422, 1, 218>>, <<423, 423, 1, 1>>,
         <<425, 425, 1, 218>>, <<428, 428, 1, 1>>, <<430, 430, 1, 218>>, <<431, 431, 1, 1>>, <<433,
         434, 1, 217>>, <<435, 437, 2, 1>>, <<439, 439, 1, 219>>, <<440, 440, 1, 1>>, <<444, 444, 1,
         1>>, <<452, 452, 1, 2>>, <<453, 453, 1, 1>>, <<455, 455, 1, 2>>, <<456, 456, 1, 1>>, <<458,
         458, 1, 2>>, <<459, 475, 2, 1>>, <<478, 494, 2, 1>>, <<497, 497, 1, 2>>, <<498, 500, 2, 1>>,
         <<502, 502, 1, 0 - 97>>, <<503, 503, 1, 0 - 56>>, <<504, 542, 2, 1>>, <<544, 544, 1, 0 -
         130>>, <<546, 562, 2, 1>>, <<570, 570, 1, 10795>>, <<571, 571, 1, 1>>, <<573, 573, 1, 0 -
         163>>, <<574, 574, 1, 10792>>, <<577, 577, 1, 1>>, <<579, 579, 1, 0 - 195>>, <<580, 580, 1,
         69>>, <<581, 581, 1, 71>>, <<582, 590, 2, 1>>, <<880, 882, 2, 1>>, <<886, 886, 1, 1>>,
         <<895, 895, 1, 116>>, <<902, 902, 1, 38>>, <<904, 906, 1, 37>>, <<908, 908, 1, 64>>, <<910,
         911, 1, 63>>, <<913, 929, 1, 32>>, <<931, 939, 1, 32>>, <<975, 975, 1, 8>>, <<984, 1006, 2,
         1>>, <<1012, 1012, 1, 0 - 60>>, <<1015, 1015, 1, 1>>, <<1017, 1017, 1, 0 - 7>>, <<1018,
         1018, 1, 1>>, <<1021, 1023, 1, 0 - 130>>, <<1024, 1039, 1, 80>>, <<1040, 1071, 1, 32>>,
         <<1120, 1152, 2, 1>>, <<1162, 1214, 2, 1>>, <<1216, 1216, 1, 15>>, <<1217, 1229, 2, 1>>,
         <<1232, 1326, 2, 1>>, <<1329, 1366, 1, 48>>, <<4256, 4293, 1, 7264>>, <<4295, 4295, 1,
         7264>>, <<4301, 4301, 1, 7264>>, <<5024, 5103, 1, 38864>>, <<5104, 5109, 1, 8>>, <<7312,
         7354, 1, 0 - 3008>>, <<7357, 7359, 1, 0 - 3008>>, <<7680, 7828, 2, 1>>, <<7838, 7838, 1, 0 -
         7615>>, <<7840, 7934, 2, 1>>, <<7944, 7951, 1, 0 - 8>>, <<7960, 7965, 1, 0 - 8>>, <<7976,
         7983, 1, 0 - 8>>, <<7992, 7999, 1, 0 - 8>>, <<8008, 8013, 1, 0 - 8>>, <<8025, 8031, 2, 0 -
         8>>, <<8040, 8047, 1, 0 - 8>>, <<8072, 8079, 1, 0 - 8>>, <<8088, 8095, 1, 0 - 8>>, <<8104,
         8111, 1, 0 - 8>>, <<8120, 8121, 1, 0 - 8>>, <<8122, 8123, 1, 0 - 74>>, <<8124, 8124, 1, 0 -
         9>>, <<8136, 8139, 1, 0 - 86>>, <<8140, 8140, 1, 0 - 9>>, <<8152, 8153, 1, 0 - 8>>, <<8154,
         8155, 1, 0 - 100>>, <<8168, 8169, 1, 0 - 8>>, <<8170, 8171, 1, 0 - 112>>, <<8172, 8172, 1, 0
         - 7>>, <<8184, 8185, 1, 0 - 128>>, <<8186, 8187, 1, 0 - 126>>, <<8188, 8188, 1, 0 - 9>>,
         <<8486, 8486, 1, 0 - 7517>>, <<8490, 8490, 1, 0 - 8383>>, <<8491, 8491, 1, 0 - 8262>>,
         <<8498, 8498, 1, 28>>, <<8544, 8559, 1, 16>>, <<8579, 8579, 1, 1>>, <<9398, 9423, 1, 26>>,
         <<11264, 11311, 1, 48>>, <<11360, 11360, 1, 1>>, <<11362, 11362, 1, 0 - 10743>>, <<11363,
         11363, 1, 0 - 3814>>, <<11364, 11364, 1, 0 - 10727>>, <<11367, 11371, 2, 1>>, <<11373,
         11373, 1, 0 - 10780>>, <<11374, 11374, 1, 0 - 10749>>, <<11375, 11375, 1, 0 - 10783>>,
         <<11376, 11376, 1, 0 - 10782>>, <<11378, 11378, 1, 1>>, <<11381, 11381, 1, 1>>, <<11390,
         11391, 1, 0 - 10815>>, <<11392, 11490, 2, 1>>, <<11499, 11501, 2, 1>>, <<11506, 11506, 1,
         1>>, <<42560, 42604, 2, 1>>, <<42624, 42650, 2, 1>>, <<42786, 42798, 2, 1>>, <<42802, 42862,
         2, 1>>, <<42873, 42875, 2, 1>>, <<42877, 42877, 1, 0 - 35332>>, <<42878, 42886, 2, 1>>,
         <<42891, 42891, 1, 1>>, <<42893, 42893, 1, 0 - 42280>>, <<42896, 42898, 2, 1>>, <<42902,
         42920, 2, 1>>, <<42922, 42922, 1, 0 - 42308>>, <<42923, 42923, 1, 0 - 42319>>, <<42924,
         42924, 1, 0 - 42315>>, <<42925, 42925, 1, 0 - 42305>>, <<42926, 42926, 1, 0 - 42308>>,
         <<42928, 42928, 1, 0 - 42258>>, <<42929, 42929, 1, 0 - 42282>>, <<42930, 42930, 1, 0 -
         42261>>, <<42931, 42931, 1, 928>>, <<42932, 42946, 2, 1>>, <<42948, 42948, 1, 0 - 48>>,
         <<42949, 42949, 1, 0 - 42307>>, <<42950, 42950, 1, 0 - 35384>>, <<42951, 42953, 2, 1>>,
         <<42960, 42960, 1, 1>>, <<42966, 42968, 2, 1>>, <<42997, 42997, 1, 1>>, <<65313, 65338, 1,
         32>>, <<66560, 66599, 1, 40>>, <<66736, 66771, 1, 40>>, <<66928, 66938, 1, 39>>, <<66940,
         66954, 1, 39>>, <<66956, 66962, 1, 39>>, <<66964, 66965, 1, 39>>, <<68736, 68786, 1, 64>>,
         <<71840, 71871, 1, 32>>, <<93760, 93791, 1, 32>>, <<125184, 125217, 1, 34>>}
        pairs == UNION {{<<Character(n), Character(n + r[4])>> :
                            n \in {m \in r[1]..r[2] : (m - r[1]) % r[3] = 0}} :
                        r \in LowerRuns}
    IN [c \in {p[1] : p \in pairs} |-> (CHOOSE p \in pairs : p[1] = c)[2]]

\* The characters str.lower() skips when it looks at what surrounds a capital
\* sigma (Unicode's Case_Ignorable: apostrophe, full stop, colon, combining
\* marks, modifier letters, ...), as ranges <<first, last>> of code points.
CaseIgnorable ==
    LET CaseIgnorableRanges ==
        {<<39, 39>>, <<46, 46>>, <<58, 58>>, <<94, 94>>, <<96, 96>>, <<168, 168>>, <<173, 173>>,
         <<175, 175>>, <<180, 180>>, <<183, 184>>, <<688, 879>>, <<884, 885>>, <<890, 890>>, <<900,
         901>>, <<903, 903>>, <<1155, 1161>>, <<1369, 1369>>, <<1375, 1375>>, <<1425, 1469>>, <<1471,
         1471>>, <<1473, 1474>>, <<1476, 1477>>, <<1479, 1479>>, <<1524, 1524>>, <<1536, 1541>>,
         <<1552, 1562>>, <<1564, 1564>>, <<1600, 1600>>, <<1611, 1631>>, <<1648, 1648>>, <<1750,
         1757>>, <<1759, 1768>>, <<1770, 1773>>, <<1807, 1807>>, <<1809, 1809>>, <<1840, 1866>>,
         <<1958, 1968>>, <<2027, 2037>>, <<2042, 2042>>, <<2045, 2045>>, <<2070, 2093>>, <<2137,
         2139>>, <<2184, 2184>>, <<2192, 2193>>, <<2200, 2207>>, <<2249, 2306>>, <<2362, 2362>>,
         <<2364, 2364>>, <<2369, 2376>>, <<2381, 2381>>, <<2385, 2391>>, <<2402, 2403>>, <<2417,
         2417>>, <<2433, 2433>>, <<2492, 2492>>, <<2497, 2500>>, <<2509, 2509>>, <<2530, 2531>>,
         <<2558, 2558>>, <<2561, 2562>>, <<2620, 2620>>, <<2625, 2626>>, <<2631, 2632>>, <<2635,
         2637>>, <<2641, 2641>>, <<2672, 2673>>, <<2677, 2677>>, <<2689, 2690>>, <<2748, 2748>>,
         <<2753, 2757>>, <<2759, 2760>>, <<2765, 2765>>, <<2786, 2787>>, <<2810, 2815>>, <<2817,
         2817>>, <<2876, 2876>>, <<2879, 2879>>, <<2881, 2884>>, <<2893, 2893>>, <<2901, 2902>>,
         <<2914, 2915>>, <<2946, 2946>>, <<3008, 3008>>, <<3021, 3021>>, <<3072, 3072>>, <<3076,
         3076>>, <<3132, 3132>>, <<3134, 3136>>, <<3142, 3144>>, <<3146, 3149>>, <<3157, 3158>>,
         <<3170, 3171>>, <<3201, 3201>>, <<3260, 3260>>, <<3263, 3263>>, <<3270, 3270>>, <<3276,
         3277>>, <<3298, 3299>>, <<3328, 3329>>, <<3387, 3388>>, <<3393, 3396>>, <<3405, 3405>>,
         <<3426, 3427>>, <<3457, 3457>>, <<3530, 3530>>, <<3538, 3540>>, <<3542, 3542>>, <<3633,
         3633>>, <<3636, 3642>>, <<3654, 3662>>, <<3761, 3761>>, <<3764, 3772>>, <<3782, 3782>>,
         <<3784, 3789>>, <<3864, 3865>>, <<3893, 3893>>, <<3895, 3895>>, <<3897, 3897>>, <<3953,
         3966>>, <<3968, 3972>>, <<3974, 3975>>, <<3981, 3991>>, <<3993, 4028>>, <<4038, 4038>>,
         <<4141, 4144>>, <<4146, 4151>>, <<4153, 4154>>, <<4157, 4158>>, <<4184, 4185>>, <<4190,
         4192>>, <<4209, 4212>>, <<4226, 4226>>, <<4229, 4230>>, <<4237, 4237>>, <<4253, 4253>>,
         <<4348, 4348>>, <<4957, 4959>>, <<5906, 5908>>, <<5938, 5939>>, <<5970, 5971>>, <<6002,
         6003>>, <<6068, 6069>>, <<6071, 6077>>, <<6086, 6086>>, <<6089, 6099>>, <<6103, 6103>>,
         <<6109, 6109>>, <<6155, 6159>>, <<6211, 6211>>, <<6277, 6278>>, <<6313, 6313>>, <<6432,
         6434>>, <<6439, 6440>>, <<6450, 6450>>, <<6457, 6459>>, <<6679, 6680>>, <<6683, 6683>>,
         <<6742, 6742>>, <<6744, 6750>>, <<6752, 6752>>, <<6754, 6754>>, <<6757, 6764>>, <<6771,
         6780>>, <<6783, 6783>>, <<6823, 6823>>, <<6832, 6862>>, <<6912, 6915>>, <<6964, 6964>>,
         <<6966, 6970>>, <<6972, 6972>>, <<6978, 6978>>, <<7019, 7027>>, <<7040, 7041>>, <<7074,
         7077>>, <<7080, 7081>>, <<7083, 7085>>, <<7142, 7142>>, <<7144, 7145>>, <<7149, 7149>>,
         <<7151, 7153>>, <<7212, 7219>>, <<7222, 7223>>, <<7288, 7293>>, <<7376, 7378>>, <<7380,
         7392>>, <<7394, 7400>>, <<7405, 7405>>, <<7412, 7412>>, <<7416, 7417>>, <<7468, 7530>>,
         <<7544, 7544>>, <<7579, 7679>>, <<8125, 8125>>, <<8127, 8129>>, <<8141, 8143>>, <<8157,
         8159>>, <<8173, 8175>>, <<8189, 8190>>, <<8203, 8207>>, <<8216, 8217>>, <<8228, 8228>>,
         <<8231, 8231>>, <<8234, 8238>>, <<8288, 8292>>, <<8294, 8303>>, <<8305, 8305>>, <<8319,
         8319>>, <<8336, 8348>>, <<8400, 8432>>, <<11388, 11389>>, <<11503, 11505>>, <<11631,
         11631>>, <<11647, 11647>>, <<11744, 11775>>, <<11823, 11823>>, <<12293, 12293>>, <<12330,
         12333>>, <<12337, 12341>>, <<12347, 12347>>, <<12441, 12446>>, <<12540, 12542>>, <<40981,
         40981>>, <<42232, 42237>>, <<42508, 42508>>, <<42607, 42610>>, <<42612, 42621>>, <<42623,
         42623>>, <<42652, 42655>>, <<42736, 42737>>, <<42752, 42785>>, <<42864, 42864>>, <<42888,
         42890>>, <<42994, 42996>>, <<43000, 43001>>, <<43010, 43010>>, <<43014, 43014>>, <<43019,
         43019>>, <<43045, 43046>>, <<43052, 43052>>, <<43204, 43205>>, <<43232, 43249>>, <<43263,
         43263>>, <<43302, 43309>>, <<43335, 43345>>, <<43392, 43394>>, <<43443, 43443>>, <<43446,
         43449>>, <<43452, 43453>>, <<43471, 43471>>, <<43493, 43494>>, <<43561, 43566>>, <<43569,
         43570>>, <<43573, 43574>>, <<43587, 43587>>, <<43596, 43596>>, <<43632, 43632>>, <<43644,
         43644>>, <<43696, 43696>>, <<43698, 43700>>, <<43703, 43704>>, <<43710, 43711>>, <<43713,
         43713>>, <<43741, 43741>>, <<43756, 43757>>, <<43763, 43764>>, <<43766, 43766>>, <<43867,
         43871>>, <<43881, 43883>>, <<44005, 44005>>, <<44008, 44008>>, <<44013, 44013>>, <<64286,
         64286>>, <<64434, 64450>>, <<65024, 65039>>, <<65043, 65043>>, <<65056, 65071>>, <<65106,
         65106>>, <<65109, 65109>>, <<65279, 65279>>, <<65287, 65287>>, <<65294, 65294>>, <<65306,
         65306>>, <<65342, 65342>>, <<65344, 65344>>, <<65392, 65392>>, <<65438, 65439>>, <<65507,
         65507>>, <<65529, 65531>>, <<66045, 66045>>, <<66272, 66272>>, <<66422, 66426>>, <<67456,
         67461>>, <<67463, 67504>>, <<67506, 67514>>, <<68097, 68099>>, <<68101, 68102>>, <<68108,
         68111>>, <<68152, 68154>>, <<68159, 68159>>, <<68325, 68326>>, <<68900, 68903>>, <<69291,
         69292>>, <<69446, 69456>>, <<69506, 69509>>, <<69633, 69633>>, <<69688, 69702>>, <<69744,
         69744>>, <<69747, 69748>>, <<69759, 69761>>, <<69811, 69814>>, <<69817, 69818>>, <<69821,
         69821>>, <<69826, 69826>>, <<69837, 69837>>, <<69888, 69890>>, <<69927, 69931>>, <<69933,
         69940>>, <<70003, 70003>>, <<70016, 70017>>, <<70070, 70078>>, <<70089, 70092>>, <<70095,
         70095>>, <<70191, 70193>>, <<70196, 70196>>, <<70198, 70199>>, <<70206, 70206>>, <<70367,
         70367>>, <<70371, 70378>>, <<70400, 70401>>, <<70459, 70460>>, <<70464, 70464>>, <<70502,
         70508>>, <<70512, 70516>>, <<70712, 70719>>, <<70722, 70724>>, <<70726, 70726>>, <<70750,
         70750>>, <<70835, 70840>>, <<70842, 70842>>, <<70847, 70848>>, <<70850, 70851>>, <<71090,
         71093>>, <<71100, 71101>>, <<71103, 71104>>, <<71132, 71133>>, <<71219, 71226>>, <<71229,
         71229>>, <<71231, 71232>>, <<71339, 71339>>, <<71341, 71341>>, <<71344, 71349>>, <<71351,
         71351>>, <<71453, 71455>>, <<71458, 71461>>, <<71463, 71467>>, <<71727, 71735>>, <<71737,
         71738>>, <<71995, 71996>>, <<71998, 71998>>, <<72003, 72003>>, <<72148, 72151>>, <<72154,
         72155>>, <<72160, 72160>>, <<72193, 72202>>, <<72243, 72248>>, <<72251, 72254>>, <<72263,
         72263>>, <<72273, 72278>>, <<72281, 72283>>, <<72330, 72342>>, <<72344, 72345>>, <<72752,
         72758>>, <<72760, 72765>>, <<72767, 72767>>, <<72850, 72871>>, <<72874, 72880>>, <<72882,
         72883>>, <<72885, 72886>>, <<73009, 73014>>, <<73018, 73018>>, <<73020, 73021>>, <<73023,
         73029>>, <<73031, 73031>>, <<73104, 73105>>, <<73109, 73109>>, <<73111, 73111>>, <<73459,
         73460>>, <<78896, 78904>>, <<92912, 92916>>, <<92976, 92982>>, <<92992, 92995>>, <<94031,
         94031>>, <<94095, 94111>>, <<94176, 94177>>, <<94179, 94180>>, <<110576, 110579>>, <<110581,
         110587>>, <<110589, 110590>>, <<113821, 113822>>, <<113824, 113827>>, <<118528, 118573>>,
         <<118576, 118598>>, <<119143, 119145>>, <<119155, 119170>>, <<119173, 119179>>, <<119210,
         119213>>, <<119362, 119364>>, <<121344, 121398>>, <<121403, 121452>>, <<121461, 121461>>,
         <<121476, 121476>>, <<121499, 121503>>, <<121505, 121519>>, <<122880, 122886>>, <<122888,
         122904>>, <<122907, 122913>>, <<122915, 122916>>, <<122918, 122922>>, <<123184, 123197>>,
         <<123566, 123566>>, <<123628, 123631>>, <<125136, 125142>>, <<125252, 125259>>, <<127995,
         127999>>, <<917505, 917505>>, <<917536, 917631>>, <<917760, 917999>>}
    IN {Character(n) : n \in UNION {r[1]..r[2] : r \in CaseIgnorableRanges}}

\* The cased letters (Unicode's Cased) among the characters that are not
\* skipped, as ranges <<first, last>> of code points.
Cased ==
    LET CasedRanges ==
        {<<65, 90>>, <<97, 122>>, <<170, 170>>, <<181, 181>>, <<186, 186>>, <<192, 214>>, <<216,
         246>>, <<248, 442>>, <<444, 447>>, <<452, 659>>, <<661, 687>>, <<880, 883>>, <<886, 887>>,
         <<891, 893>>, <<895, 895>>, <<902, 902>>, <<904, 906>>, <<908, 908>>, <<910, 929>>, <<931,
         1013>>, <<1015, 1153>>, <<1162, 1327>>, <<1329, 1366>>, <<1376, 1416>>, <<4256, 4293>>,
         <<4295, 4295>>, <<4301, 4301>>, <<4304, 4346>>, <<4349, 4351>>, <<5024, 5109>>, <<5112,
         5117>>, <<7296, 7304>>, <<7312, 7354>>, <<7357, 7359>>, <<7424, 7467>>, <<7531, 7543>>,
         <<7545, 7578>>, <<7680, 7957>>, <<7960, 7965>>, <<7968, 8005>>, <<8008, 8013>>, <<8016,
         8023>>, <<8025, 8025>>, <<8027, 8027>>, <<8029, 8029>>, <<8031, 8061>>, <<8064, 8116>>,
         <<8118, 8124>>, <<8126, 8126>>, <<8130, 8132>>, <<8134, 8140>>, <<8144, 8147>>, <<8150,
         8155>>, <<8160, 8172>>, <<8178, 8180>>, <<8182, 8188>>, <<8450, 8450>>, <<8455, 8455>>,
         <<8458, 8467>>, <<8469, 8469>>, <<8473, 8477>>, <<8484, 8484>>, <<8486, 8486>>, <<8488,
         8488>>, <<8490, 8493>>, <<8495, 8500>>, <<8505, 8505>>, <<8508, 8511>>, <<8517, 8521>>,
         <<8526, 8526>>, <<8544, 8575>>, <<8579, 8580>>, <<9398, 9449>>, <<11264, 11387>>, <<11390,
         11492>>, <<11499, 11502>>, <<11506, 11507>>, <<11520, 11557>>, <<11559, 11559>>, <<11565,
         11565>>, <<42560, 42605>>, <<42624, 42651>>, <<42786, 42863>>, <<42865, 42887>>, <<42891,
         42894>>, <<42896, 42954>>, <<42960, 42961>>, <<42963, 42963>>, <<42965, 42969>>, <<42997,
         42998>>, <<43002, 43002>>, <<43824, 43866>>, <<43872, 43880>>, <<43888, 43967>>, <<64256,
         64262>>, <<64275, 64279>>, <<65313, 65338>>, <<65345, 65370>>, <<66560, 66639>>, <<66736,
         66771>>, <<66776, 66811>>, <<66928, 66938>>, <<66940, 66954>>, <<66956, 66962>>, <<66964,
         66965>>, <<66967, 66977>>, <<66979, 66993>>, <<66995, 67001>>, <<67003, 67004>>, <<68736,
         68786>>, <<68800, 68850>>, <<71840, 71903>>, <<93760, 93823>>, <<119808, 119892>>, <<119894,
         119964>>, <<119966, 119967>>, <<119970, 119970>>, <<119973, 119974>>, <<119977, 119980>>,
         <<119982, 119993>>, <<119995, 119995>>, <<119997, 120003>>, <<120005, 120069>>, <<120071,
         120074>>, <<120077, 120084>>, <<120086, 120092>>, <<120094, 120121>>, <<120123, 120126>>,
         <<120128, 120132>>, <<120134, 120134>>, <<120138, 120144>>, <<120146, 120485>>, <<120488,
         120512>>, <<120514, 120538>>, <<120540, 120570>>, <<120572, 120596>>, <<120598, 120628>>,
         <<120630, 120654>>, <<120656, 120686>>, <<120688, 120712>>, <<120714, 120744>>, <<120746,
         120770>>, <<120772, 120779>>, <<122624, 122633>>, <<122635, 122654>>, <<125184, 125251>>,
         <<127280, 127305>>, <<127312, 127337>>, <<127344, 127369>>}
    IN {Character(n) : n \in UNION {r[1]..r[2] : r \in CasedRanges}}

\* str.lower(): every character that has a lower case is replaced by it.
\* Two characters are special: the dotted capital I (U+0130) becomes two
\* characters, i and the combining dot above; the capital sigma (U+03A3)
\* becomes the final small sigma (U+03C2) when, skipping the characters of
\* CaseIgnorable, a cased letter comes before it and none comes after it,
\* and the small sigma (U+03C3) otherwise.
lower(s) ==
    LET final(i) ==
            /\ \E j \in 1..(i - 1) :
                  /\ s[j] \in Cased
                  /\ \A k \in (j + 1)..(i - 1) : s[k] \in CaseIgnorable
            /\ ~\E j \in (i + 1)..Len(s) :
                  /\ s[j] \in Cased
                  /\ \A k \in (i + 1)..(j - 1) : s[k] \in CaseIgnorable
        low(i) == IF s[i] = "U+03A3"
                  THEN IF final(i) THEN <<"U+03C2">> ELSE <<"U+03C3">>
                  ELSE IF s[i] = "U+0130" THEN <<"i", "U+0307">>
                  ELSE IF s[i] \in DOMAIN LowerCase THEN <<LowerCase[s[i]]>>
                  ELSE <<s[i]>>
        done[i \in 0..Len(s)] == IF i = 0 THEN <<>> ELSE done[i - 1] \o low(i)
    IN done[Len(s)]

\* str.strip(): the text without the white space at its two ends.
strip(s) ==
    LET keep == {i \in 1..Len(s) : s[i] \notin Whitespace} IN
    IF keep = {} THEN <<>> ELSE SubSeq(s, Min(keep), Max(keep))

\* Variant: `confirmation in 'yes'`, a substring test.
ConfirmedSubstring(answer) == HasSub(<<"y", "e", "s">>, strip(lower(answer)))

\* confirmation = input(...).lower().strip(); confirmation in ['yes', 'y']
Confirmed(answer) == strip(lower(answer)) \in {<<"y", "e", "s">>, <<"y">>}

\* What the user can type at the prompt: yes and y in several cases and with
\* white space of several kinds around them (blank, tab, carriage return,
\* vertical tab, no-break space, ideographic space), and texts that are not
\* yes: other words, yes with something added or inside, a zero width space
\* (U+200B, no white space) before y, the fullwidth Y, YES with an acute
\* accent on the Y (U+00DD), and a Greek word that ends in a capital sigma.
Answers == {<<"y">>, <<" ", "Y", "E", "S", " ">>, <<"\t", "Y", "e", "s">>, <<"n", "o">>, <<>>,
            <<"e", "s">>, <<"y", "e", "s", "!">>, <<"y", " ", "e", "s">>,
            <<"y", "e", "s", "U+00A0">>, <<"y", "U+000B">>, <<"y", "e", "s", "\r">>,
            <<"U+3000", "Y", "U+0085">>, <<"U+200B", "y">>, <<"U+FF39">>, <<"U+00A0">>,
            <<"U+00DD", "E", "S">>, <<"U+039D", "U+0391", "U+0399", "U+03A3">>}

\* delete_spreadsheet: the prompt; input() can also fail (end of input).
FacDeleteConfirm ==
    /\ fac.pc = "confirm"
    /\ \E typed \in BOOLEAN, a \in Answers :
         /\ ~typed => a = <<>>
         /\ fac' = IF typed /\ Confirmed(a)
                   THEN With(fac, [prompted |-> TRUE, answer |-> a, pc |-> "delete"])
                   ELSE Return(With(fac, [prompted |-> TRUE, answer |-> a,
                                          errors |-> fac.errors + 1,
                                          message |-> IF typed THEN "cancelled" ELSE "no input"]),
                               "False")
    /\ UNCHANGED <<credVars, extractVars, helperVars>>

\* delete_spreadsheet: drive_service.files().delete(fileId).execute().
FacDeleteRequest ==
    /\ fac.pc = "delete"
    /\ \E ok \in BOOLEAN :
         fac' = LET q == With(fac, [reqs |-> fac.reqs + 1, writes |-> fac.writes + 1]) IN
                IF ok THEN Return(q, "True")
                ELSE Return(With(q, [errors |-> q.errors + 1]), "False")
    /\ UNCHANGED <<credVars, extractVars, helperVars>>

\* Variant: the limit is forwarded as given.
SentLimitUncapped(limit) == limit

\* 'limit': min(limit, 200)
SentLimit(limit) == Min({limit, ConfluenceMaxLimit})

\* The operations that send the paging parameters limit and start.
PagedOps == {"Confluence.search_content", "Confluence.search_in_space",
             "Confluence.get_space_content"}

\* Variant: a response other than 200 makes the operation ask again.
FacSessionGetRetry ==
    /\ fac.pc = "get"
    /\ \E resp \in {"200", "other", "raise"} :
         fac' = LET q == With(fac, [reqs |-> fac.reqs + 1,
                                    errors |-> fac.errors + (IF resp = "200" THEN 0 ELSE 1)])
                    p == IF fac.op \in PagedOps
                         THEN With(q, [sent |-> TRUE, sentLimit |-> SentLimit(fac.limit),
                                       sentStart |-> fac.start])
                         ELSE q
                IN IF resp = "other" /\ fac.reqs = 0 THEN p
                   ELSE Return(p, IF resp = "200" THEN FacSuccess(fac.op)
                                  ELSE FacSentinel(fac.op))
    /\ UNCHANGED <<credVars, extractVars, helperVars>>

\* None and the empty string count as not given.
Falsy(v) == v \in {"None", ""}

\* ' AND '.join(parts), a text being a sequence of pieces.
RECURSIVE join(_, _)
join(sep, parts) ==
    IF Len(parts) = 1 THEN parts[1]
    ELSE parts[1] \o <<sep>> \o join(sep, Tail(parts))

\* Variant: the default space is used whenever one is configured.
effective_spaceAlways(q) ==
    IF ~Falsy(q.space_key) THEN q.space_key ELSE q.default_space

\* effective_space = space_key; if not effective_space and use_default_space
\* and self.default_space: effective_space = self.default_space
effective_space(q) ==
    IF Falsy(q.space_key) /\ q.use_default_space /\ ~Falsy(q.default_space)
    THEN q.default_space ELSE q.space_key

\* search_content: cql_parts = [query], then the space clause and the type
\* clause when there is a space and a type, joined by ' AND '.
cql(q) ==
    join(" AND ",
         <<<<q.query>>>>
         \o (IF ~Falsy(effective_space(q))
             THEN <<<<"space = \"", effective_space(q), "\"">>>> ELSE <<>>)
         \o (IF ~Falsy(q.content_type)
             THEN <<<<"type = \"", q.content_type, "\"">>>> ELSE <<>>))

\* The operations that send a CQL query.
SearchOps == {"Confluence.search_content", "Confluence.search_in_space"}

\* search_content: the dictionary returned for a 200 answer with n results:
\* one formatted result per result, their number, and params['cql'].
search_result(q, n) ==
    LET formatted_results == [i \in 1..n |-> [id |-> i]] IN
    [results |-> formatted_results, total_results |-> Len(formatted_results),
     query |-> q.sentCql]

\* A Confluence operation: one self.session.get(url, params), then the status
\* code; anything but 200, and any exception, gives the sentinel. n is the
\* number of results in a 200 answer to a search.
FacSessionGet ==
    /\ fac.pc = "get"
    /\ \E resp \in {"200", "other", "raise"}, n \in 0..MaxItems :
         /\ (resp # "200" \/ fac.op \notin SearchOps) => n = 0
         /\ fac' = LET q == With(fac, [reqs |-> fac.reqs + 1,
                                       errors |-> fac.errors + (IF resp = "200" THEN 0 ELSE 1)])
                       p == IF fac.op \in PagedOps
                            THEN With(q, [sent |-> TRUE, sentLimit |-> SentLimit(fac.limit),
                                          sentStart |-> fac.start])
                            ELSE q
                       c == IF fac.op \in SearchOps THEN With(p, [sentCql |-> cql(fac)]) ELSE p
                   IN IF resp # "200" THEN Return(c, FacSentinel(fac.op))
                      ELSE IF fac.op \in SearchOps
                      THEN Return(With(c, [returned |-> search_result(c, n)]), FacSuccess(fac.op))
                      ELSE Return(c, FacSuccess(fac.op))
    /\ UNCHANGED <<credVars, extractVars, helperVars>>

InitFacade == CredInit /\ ExtractIdle /\ FacIdle /\ HelpersIdle

NextFacade ==
    \/ FacCall
    \/ FacConnect
    \/ FacRequest
    \/ FacLoadToken
    \/ FacRefresh
    \/ FacConsent
    \/ FacOpenToken
    \/ FacSaveToken
    \/ FacBuildService
    \/ FacListFiles
    \/ FacDeleteGetInfo
    \/ FacDeleteConfirm
    \/ FacDeleteRequest
    \/ FacSessionGet

SpecFacade == InitFacade /\ [][NextFacade]_vars

(***************************************************************************)
(* Properties of the facades                                               *)
(***************************************************************************)
\* A name lookup called by the caller has returned after its search was
\* answered with n files or more.
Resolved(n) ==
    /\ fac.op \in FindOps /\ fac.pc = "done"
    /\ fac.listed /\ Len(fac.files) >= n

\* C13: name resolution classifies the search result by its size: no match
\* gives the not-found outcome, exactly one match gives that match's ID, two
\* or more give the ambiguous outcome, in which every candidate the search
\* returned is listed and no candidate's ID is returned.
C13_ResolutionBySize ==
    Resolved(0) =>
        /\ Len(fac.files) = 0 =>
              (fac.message = "not found" /\ fac.result # "ID" /\ fac.id = 0)
        /\ Len(fac.files) = 1 =>
              (fac.message = "unique" /\ fac.result = "ID" /\ fac.id = fac.files[1].id)
        /\ Len(fac.files) >= 2 =>
              /\ fac.message = "multiple" /\ fac.result # "ID" /\ fac.id = 0
              /\ \A i \in DOMAIN fac.files : \E j \in DOMAIN fac.printed :
                    /\ fac.printed[j][1] = fac.files[i].name
                    /\ fac.printed[j][2] = fac.files[i].id

C13_Witness ==
    /\ Resolved(2) /\ fac.op = "Drive.find_by_name"
    /\ fac.files = <<File(1, "document"), File(2, "spreadsheet")>>
    /\ fac.message = "multiple" /\ Len(fac.printed) = 2 /\ fac.id = 0

\* C14 (as claimed): with two or more matches the value returned to the
\* caller is an Ambiguous outcome that carries the candidates, a value other
\* than the one returned when nothing was found.
C14_AmbiguousOutcomeReturned ==
    Resolved(2) => (fac.result = "Ambiguous" /\ fac.result # FacSentinel(fac.op))

\* C14 (amended): with two or more matches the value returned to the caller
\* is None, the value also returned when nothing was found; the candidates
\* (name and ID, for Drive.find_by_name also the type) are only printed, one
\* line for each in the order of the search result.
C14_AmbiguousReturnsNone ==
    Resolved(2) =>
        /\ fac.result = "None"
        /\ Len(fac.printed) = Len(fac.files)
        /\ \A i \in DOMAIN fac.files :
              /\ Len(fac.printed[i]) = (IF fac.op = "Drive.find_by_name" THEN 3 ELSE 2)
              /\ fac.printed[i][1] = fac.files[i].name
              /\ fac.printed[i][2] = fac.files[i].id
              /\ fac.op = "Drive.find_by_name" => fac.printed[i][3] = fac.files[i].mimeType

C14_Witness ==
    /\ Resolved(2) /\ fac.op = "GoogleSheets.find_spreadsheet_by_name"
    /\ fac.result = "None"
    /\ fac.printed = <<<<"name", 1>>, <<"name", 2>>>>

\* C15 (as claimed): no exception crosses the public boundary of a facade:
\* whatever the input and whatever the transport does, every call of a
\* constructor or public method of Jira, Confluence and GoogleSheets returns
\* a value instead of raising.
C15_NoExceptionCrossesFacade ==
    fac.pc = "done" => fac.result # "raised"

\* The mutating operations and the read operations of the facades.
CreateOps == {"Jira.create_issue", "Jira.create_component"}
MutatingOps == JiraWrites \cup SheetsWrites \cup {"GoogleSheets.delete_spreadsheet"}
ReadOps == JiraReads \cup ConfluenceReads \cup SheetsReads

\* C16 (as claimed): every mutating operation returns a boolean, true on
\* success and false on any error; every read operation returns data on
\* success and None on any error.
C16_UniformShape ==
    fac.pc = "done" =>
        /\ fac.op \in MutatingOps =>
              /\ fac.result \in {"True", "False"}
              /\ fac.errors > 0 => fac.result = "False"
        /\ fac.op \in ReadOps =>
              /\ fac.result \in {"data", "None"}
              /\ fac.errors > 0 => fac.result = "None"

\* The reads that go on after a failure: get_users_with_roles after a failed
\* user search, a failed lookup for one role, user or group, or a malformed
\* user record; get_project_custom_fields after a failed search for an issue
\* of the project.
TolerantReads == {"Jira.get_users_with_roles", "Jira.get_project_custom_fields"}

\* C16 (amended): every mutating operation other than create issue and
\* create component returns a boolean, true when nothing failed and false
\* after any failure, except that delete_spreadsheet also returns true after
\* a failure of its credential step that the step recovered from (an
\* unreadable token file, a failed refresh, a token that could not be saved).
\* Create issue and create component return the created object, or None
\* after a failure, except that create component still returns the object
\* when only the lookup of its lead failed. Every read operation returns data
\* when nothing failed and None after any failure, except that
\* get_users_with_roles and get_project_custom_fields still return data
\* after the failures they go on from.
C16_ReturnShape ==
    fac.pc = "done" =>
        /\ fac.op \in MutatingOps \ CreateOps =>
              /\ fac.result \in {"True", "False"}
              /\ fac.errors = 0 => fac.result = "True"
              /\ fac.result = "False" => fac.errors > 0
              /\ (fac.errors > 0 /\ fac.op # "GoogleSheets.delete_spreadsheet")
                    => fac.result = "False"
              /\ (fac.result = "True" /\ fac.errors > 0)
                    => (fac.op = "GoogleSheets.delete_spreadsheet" /\ fac.reqs >= 2
                        /\ fac.writes = 1)
        /\ fac.op \in CreateOps =>
              /\ fac.result \in {"object", "None"}
              /\ fac.errors = 0 => fac.result = "object"
              /\ fac.result = "None" => fac.errors > 0
              /\ (fac.errors > 0 /\ fac.result = "object")
                    => (fac.op = "Jira.create_component" /\ fac.leadLookup = "failed"
                        /\ fac.errors = 1)
        /\ fac.op \in ReadOps =>
              /\ fac.result \in {"data", "None"}
              /\ fac.errors = 0 => fac.result = "data"
              /\ fac.result = "None" => fac.errors > 0
              /\ (fac.errors > 0 /\ fac.op \notin TolerantReads) => fac.result = "None"
              /\ (fac.errors > 0 /\ fac.result = "data"
                    /\ fac.op = "Jira.get_project_custom_fields")
                    => (fac.errors = 1 /\ fac.sentCall = "search_issues")

\* A read returned data although a user record was malformed and a lookup
\* of the fallback failed.
C16_Witness ==
    /\ fac.pc = "done" /\ fac.op = "Jira.get_users_with_roles" /\ ~fac.project
    /\ fac.bad = 1 /\ fac.todo = 2 /\ fac.errors = 2 /\ fac.result = "data"

\* The call has returned and reports success.
ReportsSuccess == fac.pc = "done" /\ fac.result \in {"True", "object"}

\* C17: a call of a mutating operation has performed exactly one remote
\* state-changing request when it reports success, and no call performs more
\* than one.
C17_OneStateChangePerCall ==
    fac.op \in MutatingOps =>
        /\ fac.writes <= 1
        /\ ReportsSuccess => fac.writes = 1

C17_Witness ==
    /\ ReportsSuccess /\ fac.op = "Jira.update_component" /\ fac.lead
    /\ fac.reqs = 3 /\ fac.writes = 1

\* The answer is 'yes' or 'y' in any mix of cases, with nothing but
\* whitespace around it.
AnsweredYes(a) ==
    \E i \in 1..Len(a), j \in 1..Len(a) :
        /\ \A k \in 1..Len(a) : (k < i \/ k > j) => a[k] \in Whitespace
        /\ a[i] \in {"y", "Y"}
        /\ \/ j = i
           \/ j = i + 2 /\ a[i + 1] \in {"e", "E"} /\ a[j] \in {"s", "S"}

\* C18: delete_spreadsheet issues the remote delete only after the prompt was
\* answered 'yes' or 'y' (case-insensitive, surrounding whitespace ignored);
\* after any other answer it returns False and has sent no delete request.
C18_DeleteOnlyAfterYes ==
    fac.op = "GoogleSheets.delete_spreadsheet" =>
        /\ (fac.pc = "delete" \/ fac.writes > 0) => (fac.prompted /\ AnsweredYes(fac.answer))
        /\ (fac.pc = "done" /\ fac.prompted /\ ~AnsweredYes(fac.answer))
              => (fac.result = "False" /\ fac.writes = 0)
        /\ (fac.prompted /\ AnsweredYes(fac.answer)) => fac.pc \in {"delete", "done"}

C18_Witness ==
    /\ fac.op = "GoogleSheets.delete_spreadsheet" /\ fac.pc = "done"
    /\ fac.answer = <<" ", "Y", "E", "S", " ">>
    /\ fac.writes = 1 /\ fac.result = "True"

\* A public method (not a constructor) has returned its result, not its
\* sentinel.
Succeeded ==
    /\ fac.pc = "done" /\ fac.op \notin Constructors
    /\ fac.result \in {"True", "object", "data", "ID"}

\* C19 (as claimed): each facade call is a single request/response exchange:
\* a call that has returned its result has issued exactly one remote request,
\* and no call changes state that outlives it other than the session handle:
\* the token file is as it was.
C19_SingleExchangePerCall ==
    /\ [](Succeeded => fac.reqs = 1)
    /\ [][tokenFile' = tokenFile]_vars

\* The Jira methods that make one SDK call.
JiraSingle == {"Jira.get_issue", "Jira.search_issues", "Jira.create_issue",
               "Jira.get_projects", "Jira.get_project", "Jira.add_comment",
               "Jira.get_issue_types", "Jira.get_groups", "Jira.get_group_members"}

\* The requests a Jira method that returns its result has sent besides the
\* connection attempt. get_users_with_roles without a project sends at least
\* one, how many depends on the users and groups it finds (0 stands for that).
JiraExchanges(q) ==
    CASE q.op \in JiraSingle -> 1
      [] q.op \in {"Jira.update_issue", "Jira.get_project_components"} -> 2
      [] q.op = "Jira.create_component" -> IF q.lead THEN 2 ELSE 1
      [] q.op = "Jira.update_component" -> IF q.lead THEN 3 ELSE 2
      [] q.op = "Jira.get_project_custom_fields" -> 3
      [] q.op = "Jira.get_users_with_roles" -> IF q.project THEN 1 + q.todo ELSE 0

\* The requests a Google operation that returns its result has sent besides
\* those of its credential steps, and the number of credential steps it runs.
GoogleExchanges(q) ==
    CASE q.op = "GoogleSheets.authenticate" -> [own |-> 0, steps |-> 1]
      [] q.op \in {"GoogleSheets.create_spreadsheet"} \cup FindOps -> [own |-> 1, steps |-> 1]
      [] q.op = "GoogleSheets.create_and_get_instance" -> [own |-> 1, steps |-> 2]
      [] q.op = "GoogleSheets.delete_spreadsheet" ->
            IF q.hasId THEN [own |-> 2, steps |-> 1] ELSE [own |-> 3, steps |-> 2]

\* C19 (amended): a facade call is a sequence of request/response exchanges,
\* one after another, and not always a single one. A Confluence method and a
\* GoogleSheets read or write method issues at most one request and exactly
\* one when it succeeds. A Jira method is preceded by one connection attempt
\* when no session is held and then issues the requests of its SDK calls: one
\* for most, two for update_issue and get_project_components, three for
\* get_project_custom_fields, one more for a component method given a lead,
\* one per role for get_users_with_roles of a project and at least one
\* without a project. A Google operation that runs the credential step
\* issues, besides up to two requests per step (token refresh, consent), no
\* request of its own (authenticate), one (create, find) or two after a
\* name search of one (delete_spreadsheet). What a call leaves behind for
\* the next is the session handle of its object (set by a successful
\* connection or authenticate) and, for the operations that run the
\* credential step, the token file; the rest of the object is as its
\* constructor set it.
C19_ExchangesPerCall ==
    /\ [](/\ (fac.op \in ConfluenceOps \cup SheetsReads \cup SheetsWrites)
              => /\ fac.reqs <= 1
                 /\ (Succeeded => fac.reqs = 1)
          /\ (fac.op \in JiraReads \cup JiraWrites)
              => /\ fac.connects <= 1
                 /\ fac.reqs >= fac.connects
                 /\ Succeeded
                       => /\ fac.reqs > fac.connects
                          /\ (JiraExchanges(fac) > 0)
                                => (fac.reqs = fac.connects + JiraExchanges(fac))
          /\ (fac.op \in CredentialOps /\ Succeeded)
              => /\ fac.nCred = GoogleExchanges(fac).steps
                 /\ fac.reqs >= GoogleExchanges(fac).own
                 /\ fac.reqs <= GoogleExchanges(fac).own + 2 * fac.nCred)
    /\ [][/\ (fac'.jira # fac.jira)
              => \/ fac'.op = "Jira.__init__" /\ fac.pc \in {"idle", "done"}
                 \/ fac.pc = "connect" /\ fac'.jira = "session"
          /\ (fac'.confluence # fac.confluence \/ fac'.default_space # fac.default_space)
              => (fac'.op = "Confluence.__init__" /\ fac.pc \in {"idle", "done"})
          /\ (fac'.service # fac.service \/ fac'.spreadsheet_id # fac.spreadsheet_id)
              => \/ fac'.op = "GoogleSheets.__init__" /\ fac.pc \in {"idle", "done"}
                 \/ /\ fac.pc = "build" /\ fac'.service = "service"
                    /\ fac'.result \in {"True", "object"}
          /\ (tokenFile' # tokenFile)
              => (fac.op \in CredentialOps /\ fac.pc \in {"save", "write"})]_vars

\* delete_spreadsheet, given an ID, has refreshed the token, written it to the
\* token file, fetched the file and deleted it: three requests, and a token
\* file that the next call will load.
C19_Witness ==
    /\ Succeeded /\ fac.op = "GoogleSheets.delete_spreadsheet" /\ fac.hasId
    /\ fac.reqs = 3 /\ fac.writes = 1 /\ fac.errors = 0
    /\ lastWriter = 1 /\ tokenFile = fac.creds /\ fac.creds.id # 0

\* C20: Confluence search_content and get_space_content send the page size
\* min(limit, 200) and the offset start unchanged, whatever integers limit
\* and start are.
C20_LimitCappedStartUnchanged ==
    (fac.op \in {"Confluence.search_content", "Confluence.get_space_content"} /\ fac.sent) =>
        /\ fac.sentLimit <= ConfluenceMaxLimit
        /\ fac.limit <= ConfluenceMaxLimit => fac.sentLimit = fac.limit
        /\ fac.limit > ConfluenceMaxLimit => fac.sentLimit = ConfluenceMaxLimit
        /\ fac.sentStart = fac.start

C20_Witness ==
    /\ fac.op = "Confluence.get_space_content" /\ fac.pc = "done" /\ fac.sent
    /\ fac.limit = 2 * ConfluenceMaxLimit + 100 /\ fac.sentLimit = ConfluenceMaxLimit
    /\ fac.start = 50 /\ fac.sentStart = 50

(***************************************************************************)
(* utils.file_utils.save_to_csv                                            *)
(*                                                                         *)
(* A grid is a list of rows, a row a list of cells, a cell a text (a       *)
(* sequence of characters); the first row is the header. The grid without  *)
(* any row is a grid too.                                                  *)
(***************************************************************************)
\* The texts a cell can hold: empty, plain, and one with the delimiter, the
\* quote character and a line break.
Cells == {<<>>, <<"a">>, <<",", "\"", "\n">>}
Widths == {1, 2}
RowsOf(w) == [1..w -> Cells]
AnyRow == UNION {RowsOf(w) : w \in Widths}
Grids == UNION {[1..n -> AnyRow] : n \in 0..(MaxRows + 1)}

\* The value pandas holds for a cell that a short row does not have.
NaN == <<"nan">>

\* pd.DataFrame(rows, columns=columns) for a list of lists: the rows are
\* padded to the longest of them, and a width other than len(columns) raises
\* ("2 columns passed, passed data had 1 columns").
DataFrame(rows, columns) ==
    IF rows = <<>> THEN [ok |-> TRUE, columns |-> columns, rows |-> <<>>]
    ELSE LET w == Max({Len(rows[i]) : i \in DOMAIN rows}) IN
         IF w # Len(columns) THEN [ok |-> FALSE, columns |-> columns, rows |-> <<>>]
         ELSE [ok |-> TRUE, columns |-> columns,
               rows |-> [i \in DOMAIN rows |->
                           [j \in 1..w |-> IF j <= Len(rows[i]) THEN rows[i][j] ELSE NaN]]]

\* The characters that make the csv writer quote a field (QUOTE_MINIMAL).
Special == {",", "\"", "\n"}

RECURSIVE DoubleQuotes(_)
DoubleQuotes(c) ==
    IF c = <<>> THEN <<>>
    ELSE (IF Head(c) = "\"" THEN <<"\"", "\"">> ELSE <<Head(c)>>) \o DoubleQuotes(Tail(c))

\* Variant: a field is written as it is.
FieldBare(c) == IF c = NaN THEN <<>> ELSE c

\* One field of the file: a missing value is written empty (na_rep=''), a
\* text with a special character is quoted and its quotes are doubled.
Field(c) ==
    IF c = NaN THEN <<>>
    ELSE IF \E i \in DOMAIN c : c[i] \in Special
    THEN <<"\"">> \o DoubleQuotes(c) \o <<"\"">>
    ELSE c

RECURSIVE JoinFields(_)
JoinFields(row) ==
    IF Len(row) = 1 THEN Field(row[1])
    ELSE Field(Head(row)) \o <<",">> \o JoinFields(Tail(row))

\* One line of the file, as csv.writer writes a row: a row without fields is
\* an empty line, a row of one empty field is written as "".
Line(row) ==
    IF row = <<>> THEN <<"\n">>
    ELSE LET l == JoinFields(row) IN (IF l = <<>> THEN <<"\"", "\"">> ELSE l) \o <<"\n">>

RECURSIVE Lines(_)
Lines(rows) == IF rows = <<>> THEN <<>> ELSE Line(Head(rows)) \o Lines(Tail(rows))

\* df.to_csv(filename, index=False): the header line, then one line per row.
to_csv(df) == Line(df.columns) \o Lines(df.rows)

\* save_to_csv(data, filename): the frame is built from data[1:] with
\* `data[0] if data else []` as columns (the grid without rows gives a frame
\* without rows or columns) and written; any exception (building the frame,
\* opening or writing the file) is caught and False is returned.
SaveToCsv ==
    /\ csv.pc = "start"
    /\ \E io \in BOOLEAN :
         LET df == DataFrame(SubSeq(csv.data, 2, Len(csv.data)),
                             IF csv.data # <<>> THEN csv.data[1] ELSE <<>>) IN
         csv' = IF df.ok /\ io
                THEN [csv EXCEPT !.pc = "done", !.file = to_csv(df), !.written = TRUE,
                                 !.result = "True"]
                ELSE [csv EXCEPT !.pc = "done", !.result = "False"]
    /\ UNCHANGED <<credVars, extractVars, facVars, ur, exc>>

InitCsv ==
    /\ CredIdle /\ ExtractIdle /\ FacIdle /\ RolesIdle /\ ExcerptIdle
    /\ csv \in {[pc |-> "start", data |-> g, file |-> <<>>, written |-> FALSE,
                 result |-> "pending"] : g \in Grids}

NextCsv == SaveToCsv

SpecCsv == InitCsv /\ [][NextCsv]_vars

(***************************************************************************)
(* Properties of save_to_csv                                               *)
(***************************************************************************)
\* Reading a CSV text back the way csv.reader does: fields separated by
\* commas, rows by line breaks, a quoted field ends at a quote that is not
\* doubled. st is the reader's position: at the start of a row, at the start
\* of a field, in a bare field, in a quoted field, or after a closing quote.
RECURSIVE ReadFrom(_, _, _, _, _, _)
ReadFrom(s, i, st, field, row, rows) ==
    IF i > Len(s)
    THEN IF st = "row" THEN rows ELSE Append(rows, Append(row, field))
    ELSE LET c == s[i] IN
         IF st = "quoted"
         THEN IF c = "\"" THEN ReadFrom(s, i + 1, "closed", field, row, rows)
              ELSE ReadFrom(s, i + 1, "quoted", Append(field, c), row, rows)
         ELSE IF c = "," THEN ReadFrom(s, i + 1, "field", <<>>, Append(row, field), rows)
         ELSE IF c = "\n"
         THEN ReadFrom(s, i + 1, "row", <<>>, <<>>,
                       Append(rows, IF st = "row" THEN <<>> ELSE Append(row, field)))
         ELSE IF c = "\"" /\ st \in {"row", "field"}
         THEN ReadFrom(s, i + 1, "quoted", field, row, rows)
         ELSE IF c = "\"" /\ st = "closed"
         THEN ReadFrom(s, i + 1, "quoted", Append(field, c), row, rows)
         ELSE ReadFrom(s, i + 1, "bare", Append(field, c), row, rows)

ReadCsv(s) == ReadFrom(s, 1, "row", <<>>, <<>>, <<>>)

\* Every data row has as many cells as the header row.
Rectangular(g) == \A i \in DOMAIN g : Len(g[i]) = Len(g[1])

SheetsInstanceOps == SheetsReads \cup SheetsWrites

\* C22: authenticate-before-use gate. While the service handle is unset every
\* read and write operation of the instance has returned its failure sentinel
\* without a request; the handle is set only by a step in which authenticate()
\* returns True (for create_and_get_instance: the authenticate() of the
\* instance it returns), and an authenticate() that returns False leaves the
\* handle as it was.
C22_AuthenticateBeforeUse ==
    /\ []((fac.op \in SheetsInstanceOps /\ fac.service = "none")
            => (fac.pc = "done" /\ fac.result = FacSentinel(fac.op) /\ fac.reqs = 0))
    /\ [][(fac.service # "service" /\ fac'.service = "service")
            => /\ fac'.pc = "done"
               /\ \/ fac'.op = "GoogleSheets.authenticate" /\ fac'.result = "True"
                  \/ fac'.op = "GoogleSheets.create_and_get_instance"
                        /\ fac'.result = "object"]_vars
    /\ [][(fac'.op = "GoogleSheets.authenticate" /\ fac'.pc = "done"
              /\ fac'.result = "False" /\ fac.pc # "done")
            => fac'.service = fac.service]_vars

\* A write was refused on an instance whose only authenticate() call so far
\* returned False.
C22_Witness ==
    /\ fac.op \in SheetsWrites /\ fac.pc = "done" /\ fac.service = "none"
    /\ fac.ncalls = 3 /\ fac.result = "False" /\ fac.reqs = 0

\* C23: delete_spreadsheet goes through target resolution, metadata lookup,
\* confirmation prompt and delete request in that order and stops at the first
\* step that fails. With neither argument it returns False before any
\* credential step or request; with a spreadsheet_id it never searches by
\* name; a name that resolves to no or to several spreadsheets, and a 404 on
\* the metadata lookup, end the call with False, no prompt and no delete.
C23_DeleteStepsInOrder ==
    fac.op = "GoogleSheets.delete_spreadsheet" =>
        /\ (~fac.hasId /\ ~fac.hasName)
              => (fac.pc = "done" /\ fac.result = "False" /\ fac.nCred = 0 /\ fac.reqs = 0)
        /\ fac.hasId => (~fac.listed /\ ~fac.nested /\ fac.files = <<>>)
        /\ fac.info # "none" => (fac.hasId \/ (fac.listed /\ Len(fac.files) = 1))
        /\ fac.prompted => fac.info = "ok"
        /\ fac.writes > 0 => (fac.prompted /\ fac.pc = "done")
        /\ fac.writes <= 1
        /\ ((fac.listed /\ Len(fac.files) # 1) \/ fac.info \in {"404", "error"})
              => (fac.pc = "done" /\ fac.result = "False" /\ ~fac.prompted /\ fac.writes = 0)

\* A deletion by name went through all four steps.
C23_Witness ==
    /\ fac.op = "GoogleSheets.delete_spreadsheet" /\ ~fac.hasId /\ fac.hasName
    /\ fac.listed /\ fac.info = "ok" /\ fac.prompted /\ fac.writes = 1
    /\ fac.pc = "done" /\ fac.result = "True"

(***************************************************************************)
(* Jira.get_users_with_roles without a project_key, on a connected client: *)
(* the users found and the list built from them.                           *)
(***************************************************************************)
UserKeys == {"u1", "u2"}
GroupNames == {"g1", "g2"}

\* The sequences without repetition over a set of at most two elements.
Distinct(S) ==
    {<<>>} \cup {<<x>> : x \in S} \cup {p \in {<<x, y>> : x \in S, y \in S} : p[1] # p[2]}

\* A user object of the vendor library; one that lacks an attribute the loop
\* reads (key, name, displayName, active) is not well formed.
VendorUsers == {[key |-> k, wellFormed |-> w] : k \in UserKeys, w \in BOOLEAN}
UserLists == {us \in Distinct(VendorUsers) :
                 \A i \in DOMAIN us, j \in DOMAIN us : i # j => us[i].key # us[j].key}

\* An entry of users_with_roles; hasGroups tells whether it has a 'groups' key.
UserInfo(k, t, h, gs) == [user_key |-> k, type |-> t, hasGroups |-> h, groups |-> gs]

RolesStart(g) ==
    [pc |-> "search", include_groups |-> g, users |-> <<>>, i |-> 0,
     users_with_roles |-> <<>>, fallback |-> FALSE, users_seen |-> {}, groups |-> <<>>,
     g |-> 0, fetched |-> <<>>, result |-> "pending"]

\* `return users_with_roles` once the loop that is running has no item left.
RolesReturn(q) == [q EXCEPT !.pc = "done", !.result = "list"]

\* users = self.jira.search_users('', maxResults=1000); when that raises,
\* search_users('.', maxResults=1000); when that raises too, the fallback.
SearchUsers ==
    /\ ur.pc = "search"
    /\ \E ok \in BOOLEAN, us \in UserLists :
         /\ ~ok => us = <<>>
         /\ ur' = IF ~ok THEN [ur EXCEPT !.pc = "groups", !.fallback = TRUE]
                  ELSE IF us = <<>> THEN RolesReturn(ur)
                  ELSE [ur EXCEPT !.pc = "users", !.users = us, !.i = 1]
    /\ UNCHANGED <<credVars, extractVars, facVars, csv, exc>>

\* One turn of `for user in users`: the entry is built (an attribute that is
\* missing raises and starts the fallback, with the entries appended so far
\* still in the list), user_groups is asked when include_groups, and the
\* entry is appended.
UserTurn ==
    /\ ur.pc = "users"
    /\ \E ok \in BOOLEAN, gs \in Distinct(GroupNames) :
         /\ (~ur.include_groups \/ ~ok \/ ~ur.users[ur.i].wellFormed) => gs = <<>>
         /\ (~ur.include_groups \/ ~ur.users[ur.i].wellFormed) => ok
         /\ ur' = LET user == ur.users[ur.i] IN
                  IF ~user.wellFormed THEN [ur EXCEPT !.pc = "groups", !.fallback = TRUE]
                  ELSE LET q == [ur EXCEPT !.users_with_roles =
                                      Append(@, UserInfo(user.key, "global_user",
                                                         ur.include_groups, gs)),
                                           !.i = @ + 1]
                       IN IF q.i > Len(q.users) THEN RolesReturn(q) ELSE q
    /\ UNCHANGED <<credVars, extractVars, facVars, csv, exc>>

\* The fallback: groups = self.jira.groups(); users_seen = set(). A failure
\* here returns None.
ListGroups ==
    /\ ur.pc = "groups"
    /\ \E ok \in BOOLEAN, gs \in Distinct(GroupNames) :
         /\ ~ok => gs = <<>>
         /\ ur' = IF ~ok THEN [ur EXCEPT !.pc = "done", !.result = "None"]
                  ELSE IF gs = <<>> THEN RolesReturn([ur EXCEPT !.users_seen = {}])
                  ELSE [ur EXCEPT !.pc = "members", !.groups = gs, !.g = 1, !.users_seen = {}]
    /\ UNCHANGED <<credVars, extractVars, facVars, csv, exc>>

\* The first entry of the list with the given key.
FirstWithKey(list, k) == Min({i \in DOMAIN list : list[i].user_key = k})

\* One member of a group: `if member_key not in users_seen` a new entry,
\* else the group is added to the first entry with that key.
AddMember(q, k, name) ==
    IF k \notin q.users_seen
    THEN [q EXCEPT !.users_with_roles = Append(@, UserInfo(k, "group_member", TRUE, <<name>>)),
                   !.users_seen = @ \cup {k}]
    ELSE LET i == FirstWithKey(q.users_with_roles, k) IN
         [q EXCEPT !.users_with_roles[i].hasGroups = TRUE,
                   !.users_with_roles[i].groups = Append(@, name)]

RECURSIVE AddMembers(_, _, _)
AddMembers(q, ms, name) ==
    IF ms = <<>> THEN q ELSE AddMembers(AddMember(q, Head(ms), name), Tail(ms), name)

\* One turn of `for group in groups`: group_members(group_name) and its
\* members; a failure skips the group.
GroupTurn ==
    /\ ur.pc = "members"
    /\ \E ok \in BOOLEAN, ms \in Distinct(UserKeys) :
         /\ ~ok => ms = <<>>
         /\ ur' = LET name == ur.groups[ur.g]
                      q == [AddMembers(ur, ms, name) EXCEPT
                               !.g = @ + 1,
                               !.fetched = Append(@, [name |-> name, members |-> ms])]
                  IN IF q.g > Len(q.groups) THEN RolesReturn(q) ELSE q
    /\ UNCHANGED <<credVars, extractVars, facVars, csv, exc>>

InitRoles ==
    /\ CredIdle /\ ExtractIdle /\ FacIdle /\ CsvIdle /\ ExcerptIdle
    /\ ur \in {RolesStart(g) : g \in BOOLEAN}

NextRoles ==
    \/ SearchUsers
    \/ UserTurn
    \/ ListGroups
    \/ GroupTurn

SpecRoles == InitRoles /\ [][NextRoles]_vars

(***************************************************************************)
(* Properties of get_users_with_roles                                      *)
(***************************************************************************)
\* The groups, in the order they were read, that were seen to hold user k.
RECURSIVE GroupsOf(_, _)
GroupsOf(fetched, k) ==
    IF fetched = <<>> THEN <<>>
    ELSE (IF \E i \in DOMAIN Head(fetched).members : Head(fetched).members[i] = k
          THEN <<Head(fetched).name>> ELSE <<>>) \o GroupsOf(Tail(fetched), k)

\* C24: the list returned without a project_key has at most one entry per
\* user_key, also when the user search failed part-way and the fallback ran,
\* and a user seen in one or more groups by the fallback has an entry whose
\* groups list names each of those groups.
C24_OneEntryPerUser ==
    (ur.pc = "done" /\ ur.result = "list") =>
        LET list == ur.users_with_roles IN
        /\ \A i \in DOMAIN list, j \in DOMAIN list :
              i # j => list[i].user_key # list[j].user_key
        /\ \A k \in UserKeys :
              GroupsOf(ur.fetched, k) # <<>> =>
                 \E i \in DOMAIN list :
                    /\ list[i].user_key = k
                    /\ \A n \in DOMAIN GroupsOf(ur.fetched, k) :
                          \E m \in DOMAIN list[i].groups :
                             list[i].groups[m] = GroupsOf(ur.fetched, k)[n]

JiraOps == JiraReads \cup JiraWrites

\* C25: the Jira connection. The constructor returns the object whether or
\* not the connection was made and makes one attempt; a failed attempt leaves
\* the handle unset. An operation that finds the handle unset makes one
\* attempt to connect and, when it fails, returns its failure sentinel with no
\* vendor call besides the attempt. A connection is attempted only while the
\* handle is unset, and a handle that is set stays set for as long as the
\* object is used.
C25_ConnectionLifecycle ==
    /\ []((fac.op = "Jira.__init__" /\ fac.pc = "done")
            => (fac.result = "object" /\ fac.connects = 1
                /\ (fac.errors > 0 => fac.jira = "none")))
    /\ []((fac.op \in JiraOps /\ fac.jira = "none")
            => \/ fac.pc = "connect" /\ fac.connects = 0 /\ fac.reqs = 0
               \/ /\ fac.pc = "done" /\ fac.result = FacSentinel(fac.op)
                  /\ fac.connects = 1 /\ fac.reqs = 1 /\ fac.writes = 0)
    /\ [][fac'.connects > fac.connects
            => (fac.jira = "none" /\ fac.connects = 0 /\ fac'.connects = 1)]_vars
    /\ [][(fac.jira = "session" /\ fac'.op # "Jira.__init__")
            => (fac'.jira = "session" /\ fac'.connects <= fac.connects)]_vars

\* An operation found the handle unset, tried once to connect, failed and
\* returned its sentinel.
C25_Witness ==
    /\ fac.op = "Jira.update_issue" /\ fac.pc = "done" /\ fac.jira = "none"
    /\ fac.connects = 1 /\ fac.reqs = 1 /\ fac.result = "False"

\* C26 (as claimed): when the lookup of the lead fails, create_component
\* still sends exactly one create request, without a lead, and returns the
\* created component; update_component returns False and sends no update
\* request.
C26_ReturnsCreatedComponent ==
    (fac.leadLookup = "failed" /\ fac.pc = "done") =>
        /\ fac.op = "Jira.create_component"
              => (fac.writes = 1 /\ ~fac.sentLead /\ fac.result = "object")
        /\ fac.op = "Jira.update_component"
              => (fac.writes = 0 /\ fac.result = "False")

\* C26 (amended): when the lookup of the lead fails, create_component still
\* sends exactly one create request, without a lead, and returns the created
\* component when that request succeeds and None when it fails;
\* update_component returns False and sends no update request.
C26_LeadLookupFailure ==
    (fac.leadLookup = "failed" /\ fac.pc = "done") =>
        /\ fac.op = "Jira.create_component"
              => /\ fac.writes = 1 /\ ~fac.sentLead
                 /\ fac.sentCall = "create_component"
                 /\ fac.errors \in {1, 2}
                 /\ fac.result = (IF fac.errors = 1 THEN "object" ELSE "None")
        /\ fac.op = "Jira.update_component"
              => (fac.writes = 0 /\ fac.result = "False" /\ fac.sentCall = "user")

\* A component was created although its lead could not be looked up.
C26_Witness ==
    /\ fac.op = "Jira.create_component" /\ fac.lead /\ fac.leadLookup = "failed"
    /\ fac.pc = "done" /\ fac.result = "object" /\ fac.reqs = 2 /\ fac.writes = 1
    /\ ~fac.sentLead

\* C27 as stated: when create_and_get_instance returns None no spreadsheet
\* was created by the call, and whenever the create request succeeded the
\* caller gets an authenticated instance for the new spreadsheet.
C27_NoneMeansNothingCreated ==
    (fac.op = "GoogleSheets.create_and_get_instance" /\ fac.pc = "done") =>
        /\ fac.result = "None" => ~fac.created
        /\ fac.created => /\ fac.result = "object" /\ fac.service = "service"
                          /\ fac.spreadsheet_id = fac.newId

\* C27 amended: an instance returned by create_and_get_instance is
\* authenticated and its spreadsheet_id is the ID of the spreadsheet the call
\* created with its single create request; None is returned when the create
\* request did not succeed, and also when it did and the authentication of the
\* new instance failed afterwards (second credential step or build).
C27_InstanceMeansCreated ==
    (fac.op = "GoogleSheets.create_and_get_instance" /\ fac.pc = "done") =>
        /\ fac.result \in {"object", "None"}
        /\ fac.result = "object"
              => /\ fac.created /\ fac.writes = 1 /\ fac.nCred = 2
                 /\ fac.service = "service" /\ fac.spreadsheet_id = fac.newId
        /\ (fac.result = "None" /\ fac.created)
              => (fac.writes = 1 /\ fac.nCred = 2 /\ fac.errors >= 1)
        /\ ~fac.created => (fac.result = "None" /\ fac.nCred = 1 /\ fac.errors >= 1)

\* The spreadsheet was created, the authentication that followed failed, and
\* the caller got None.
C27_Witness ==
    /\ fac.op = "GoogleSheets.create_and_get_instance" /\ fac.pc = "done"
    /\ fac.created /\ fac.writes = 1 /\ fac.result = "None" /\ fac.newId = IdB

\* The name of the k-th column in A1 notation: A .. Z, AA, AB, ...
RECURSIVE ColumnName(_)
ColumnName(k) ==
    IF k <= 26 THEN <<AlphaUpper[k]>>
    ELSE ColumnName((k - 1) \div 26) \o <<AlphaUpper[((k - 1) % 26) + 1]>>

\* C28: write_row with row_number n and k values sends an update for the
\* range from A{n} to the k-th column of row n, for every k >= 1; with
\* row_number None it sends an append.
C28_RowRange ==
    (fac.op = "GoogleSheets.write_row" /\ fac.sentCall # "none") =>
        IF fac.row_number
        THEN /\ fac.sentCall = "values.update"
             /\ fac.sentRange = SheetName \o <<"!", "A">> \o str(fac.n) \o <<":">>
                                   \o ColumnName(fac.k) \o str(fac.n)
        ELSE fac.sentCall = "values.append"

\* A clause of the CQL, with ' AND ' before it.
Clause(field, value) == <<" AND ", field, value, "\"">>

\* C29: search_content sends the caller's query followed by a space clause
\* and a type clause where they apply, joined by ' AND '. The space is
\* space_key when given, else the default space when use_default_space is
\* true and a default space is configured, else there is no space clause. The
\* 'query' of the dictionary returned is the CQL that was sent and
\* 'total_results' is the number of results returned.
C29_CqlAssembly ==
    (fac.op = "Confluence.search_content" /\ fac.pc = "done") =>
        /\ fac.sentCql =
              <<fac.query>>
              \o (IF fac.space_key \notin {"None", ""}
                  THEN Clause("space = \"", fac.space_key)
                  ELSE IF fac.use_default_space /\ fac.default_space \notin {"None", ""}
                  THEN Clause("space = \"", fac.default_space)
                  ELSE <<>>)
              \o (IF fac.content_type \notin {"None", ""}
                  THEN Clause("type = \"", fac.content_type) ELSE <<>>)
        /\ fac.result = "data"
              => /\ fac.returned.query = fac.sentCql
                 /\ fac.returned.total_results = Len(fac.returned.results)

\* A search that asked not to use the configured default space got results.
C29_Witness ==
    /\ fac.op = "Confluence.search_content" /\ fac.pc = "done" /\ fac.result = "data"
    /\ fac.default_space = "OPS" /\ ~fac.use_default_space /\ fac.space_key = ""
    /\ fac.content_type = "page"
    /\ fac.sentCql = <<"q", " AND ", "type = \"", "page", "\"">>
    /\ fac.returned.total_results = 2

(***************************************************************************)
(* Confluence._extract_excerpt                                             *)
(***************************************************************************)
\* The HTML bodies tried: every text of up to MaxHtml characters over a
\* letter, a blank, a line break, a no-break space and the two angle
\* brackets.
HtmlChars == {"a", " ", "\n", "U+00A0", "<", ">"}
Htmls == UNION {[1..n -> HtmlChars] : n \in 0..MaxHtml}

\* re.sub(r'<[^>]+>', ' ', s) from position i on: a '<', one or more
\* characters other than '>', and a '>' are replaced by one blank.
RECURSIVE SubTags(_, _)
SubTags(s, i) ==
    IF i > Len(s) THEN <<>>
    ELSE LET close == {j \in (i + 1)..Len(s) : s[j] = ">"} IN
         IF s[i] = "<" /\ close # {} /\ Min(close) >= i + 2
         THEN <<" ">> \o SubTags(s, Min(close) + 1)
         ELSE <<s[i]>> \o SubTags(s, i + 1)

\* re.sub(r'\s+', ' ', s): a run of white space of any kind (blanks, line
\* breaks, no-break spaces, ...) becomes one blank.
RECURSIVE SubSpaces(_)
SubSpaces(s) ==
    IF s = <<>> THEN <<>>
    ELSE IF Head(s) \in Whitespace
    THEN IF Len(s) >= 2 /\ s[2] \in Whitespace THEN SubSpaces(Tail(s))
         ELSE <<" ">> \o SubSpaces(Tail(s))
    ELSE <<Head(s)>> \o SubSpaces(Tail(s))

\* s.rsplit(' ', 1)[0]: s up to its last blank, all of s when it has none.
rsplit0(s) ==
    LET blanks == {i \in DOMAIN s : s[i] = " "} IN
    IF blanks = {} THEN s ELSE SubSeq(s, 1, Max(blanks) - 1)

\* _extract_excerpt(html_content, max_length): tags removed, white space
\* cleaned up, and a text longer than max_length cut at max_length, then at
\* its last blank, and given a trailing '...'.
extract_excerpt(html_content, max_length) ==
    LET text == strip(SubSpaces(SubTags(html_content, 1))) IN
    IF Len(text) > max_length
    THEN rsplit0(SubSeq(text, 1, max_length)) \o <<".", ".", ".">>
    ELSE text

ExtractExcerpt ==
    /\ exc.pc = "start"
    /\ exc' = [exc EXCEPT !.pc = "done",
                          !.text = extract_excerpt(exc.html_content, exc.max_length)]
    /\ UNCHANGED <<credVars, extractVars, facVars, csv, ur>>

InitExcerpt ==
    /\ CredIdle /\ ExtractIdle /\ FacIdle /\ CsvIdle /\ RolesIdle
    /\ exc \in {[pc |-> "start", html_content |-> h, max_length |-> m, text |-> <<>>] :
                   h \in Htmls, m \in MaxLengths}

NextExcerpt == ExtractExcerpt

SpecExcerpt == InitExcerpt /\ [][NextExcerpt]_vars

\* C30: the excerpt returned is never longer than max_length characters.
C30_ExcerptWithinMaxLength ==
    exc.pc = "done" => Len(exc.text) <= exc.max_length
====
